---- MODULE Spec2Model ----
(***************************************************************************)
(* Device transport of the image-to-G-code converter (src/serial_port.py): *)
(* the wired transport (SerialConnection), the wireless transport          *)
(* (BluetoothConnection) and the ConnectionManager that drives them.       *)
(*                                                                         *)
(* Threads of the program:                                                 *)
(*   - the caller's main thread, which issues connect, disconnect and      *)
(*     emergency_stop one at a time (main);                                *)
(*   - one worker per send request (th[c]): it runs                        *)
(*     ConnectionManager.send_gcode and, on the wired transport, the drain *)
(*     thread _send_gcode_thread started by it; on the wireless transport  *)
(*     the drain loop runs inside the call itself.                         *)
(* The device link is the environment: a write succeeds when the link      *)
(* handle is live and the link is healthy (link_ok), and raises otherwise. *)
(***************************************************************************)
EXTENDS Integers, Sequences, FiniteSets, TLC

\* ---------------------------------------------------------------- bounds
MaxSends == 2       \* send requests issued in one run
MaxOps == 5         \* budget of one run: a send request costs 2, a connect,
                    \* disconnect or emergency_stop call 1, a link change 1

Calls == 1..MaxSends

MaxRecvThreads == 2 \* receive threads started in one run
MaxChunks == 22     \* non-blank chunks received in one run

RecvThreads == 1..MaxRecvThreads

MaxStrokes == 3     \* strokes in the list handed to an optimize call
MaxGenStrokes == 2  \* contours, and hatching lines, handed to a generate call
MaxSortPoints == 4  \* (start, end) pairs handed to a _greedy_sort call
MaxGenerateCalls == 2  \* generate calls on one GCodeGenerator
MaxTextLen == 3  \* characters of the text handed to the text emitter

\* ----------------------------------------------------------------- lines
\* A line of G-code is a sequence of characters; "a" and "b" stand for the
\* first characters of two different commands.
LA == <<"a">>
LB == <<" ", "b", " ">>
LComment == <<";", "a">>
LParen == <<" ", "(", "b">>
LBlank == <<" ">>

\* The payloads a caller hands to send_gcode.
Jobs ==
  { <<LComment, LB, LA>>,
    <<LA, LBlank, LParen>> }

RECURSIVE lstrip(_)
lstrip(s) == IF s # <<>> /\ Head(s) = " " THEN lstrip(Tail(s)) ELSE s

RECURSIVE rstrip(_)
rstrip(s) ==
  IF s # <<>> /\ s[Len(s)] = " " THEN rstrip(SubSeq(s, 1, Len(s) - 1)) ELSE s

\* str.strip()
strip(s) == rstrip(lstrip(s))

\* not line or line.startswith(';') or line.startswith('(')
IsSkipped(stripped) ==
  \/ stripped = <<>>
  \/ Head(stripped) = ";"
  \/ Head(stripped) = "("

init_commands == << <<"M110 N0">>, <<"G90">>, <<"G21">> >>
end_commands == << <<"G0 X0 Y0 F1500">>, <<"M30">> >>
serial_emergency_commands == <<"\\x18", "!", "M112", "M0", "M5", "M999">>
bt_emergency_commands ==
  << <<"M112", "\n">>, <<"!", "\n">>, <<"\\x18">>, <<"M5", "\n">> >>

\* cmd + '\n'
WithNewline(cmd) == Append(cmd, "\n")

\* ------------------------------------------------------------- variables
VARIABLES
  mgr_is_connected,    \* ConnectionManager.is_connected
  connection_type,     \* ConnectionManager.connection_type
  s_is_connected,      \* SerialConnection.is_connected
  serial_connection,   \* SerialConnection.serial_connection: "None" or "open"
  s_stop_send,         \* SerialConnection.stop_send (threading.Event)
  s_stop_receive,      \* SerialConnection.stop_receive (threading.Event)
  send_queue,          \* SerialConnection.send_queue: the id of a list object
  lists,               \* the list objects: id -> contents
  send_lock,           \* SerialConnection.send_lock: 0 (free) or its holder
  b_is_connected,      \* BluetoothConnection.is_connected
  client,              \* BluetoothConnection.client: "None", "connected", "unconnected"
  characteristic_uuid, \* BluetoothConnection.characteristic_uuid: "None" or "uuid"
  b_stop_send,         \* BluetoothConnection.stop_send (asyncio.Event)
  link_ok,             \* the device link accepts writes
  ops,                 \* the budget used so far
  th,                  \* the send requests: th[c] is a record, see NewCall
  main,                \* the main thread: the call it is in
  last_estop,          \* what the last emergency_stop returned
  wire,                \* what the device received, in order: <<writer, phase,
                       \* bytes>>; writer 0 is emergency_stop
  receive_queue,       \* SerialConnection.receive_queue
  receive_thread,      \* SerialConnection.receive_thread: 0 (None) or its id
  rth,                 \* the receive threads: rth[r] is a record, see NoThread
  arrived,             \* history: every entry ever appended to receive_queue
  items,               \* the argument of an optimize call: kind and strokes
  optimized,           \* what the optimize call returned
  request,             \* the arguments of a generate call
  gcode,               \* the document the generate call returned
  mapcall,             \* the arguments of a transform_coordinates call
  mapped,              \* what the transform_coordinates call returned
  rawconfig,           \* the config a GCodeGenerator is constructed with
  stored,              \* GCodeGenerator.config after construction
  builder,             \* GCodeGenerator.builder: its lines, once constructed
  returned,            \* the texts the generate calls returned, in order
  configs              \* the config dicts: the caller's, and the callee's copy

mgrvars == <<mgr_is_connected, connection_type>>
serialvars ==
  <<s_is_connected, serial_connection, s_stop_send, s_stop_receive,
    send_queue, lists, send_lock>>
btvars == <<b_is_connected, client, characteristic_uuid, b_stop_send>>
envvars == <<link_ok, ops>>
mainvars == <<main, last_estop>>
recvvars == <<receive_queue, receive_thread, rth, arrived>>
optvars == <<items, optimized>>
genvars == <<request, gcode>>
utilvars == <<mapcall, mapped, rawconfig, stored>>
emitvars == <<builder, returned, configs>>
sidevars == <<recvvars, optvars, genvars, utilvars, emitvars>>
vars == <<mgrvars, serialvars, btvars, envvars, th, mainvars, wire, sidevars>>

\* The final status message of a drain loop, before it is made.
NoReport == [made |-> FALSE, sent |-> 0, errors |-> 0, interrupted |-> FALSE]

\* A send request before it is issued.
NewCall ==
  [ pc |-> "idle",
    kind |-> "none",      \* the transport the manager dispatched to
    job |-> <<>>,         \* gcode_lines
    it |-> 0,             \* the list object the payload loop iterates
    i |-> 0,              \* loop index: commands / lines taken so far
    line |-> <<>>,        \* the stripped line in hand
    sent_lines |-> 0,
    errors |-> 0,
    result |-> "none",    \* what send_gcode returned
    report |-> NoReport,  \* the final status message
    \* history, read by the properties only:
    attempts |-> <<>>,    \* _send_line calls made, in order: <<phase, bytes>>
    drained |-> <<>>,     \* the contents of the list when the payload loop began
    stopped |-> FALSE,    \* the flag was set, or the transport disconnected,
                          \* while the request was in flight
    cancelled |-> FALSE,  \* emergency_stop set the flag while in flight
    pcAtCancel |-> "none",\* where the request was when that first happened
    sentAtCancel |-> 0,   \* payload lines the device had received by then
    triedAtCancel |-> 0,  \* payload lines handed to _send_line by then
    raised |-> 0          \* payload and trailing writes that raised since the
                          \* link went down
  ]

\* History: one more write of request t has raised; counted while the link is
\* down.
Raised(t) == IF link_ok THEN t.raised ELSE t.raised + 1

\* A request whose thread has ended: its locals are gone.
Finished(t) == [t EXCEPT !.pc = "done", !.it = 0, !.i = 0, !.line = <<>>]

\* The state a transport's disconnect leaves behind, before any disconnect:
\* ok is what the call returned, running whether a send request of the
\* transport was in flight when it returned.
NoneLeft ==
  [ok |-> TRUE, is_connected |-> FALSE, handle |-> "None", queue |-> <<>>,
   stop_send |-> FALSE, stop_receive |-> FALSE, running |-> FALSE]

\* The main thread between two calls.  op: the step it is at; tr: the transport
\* being disconnected; then: what follows the disconnect; arg: the connection
\* type asked for; k, success_count: emergency_stop's loop; attempted, healthy,
\* written: the history of that loop (see EstopResult).
\* disc, left, twice, same: the history of the disconnect just made (see
\* Disconnecting and Disconnected).
MainIdle ==
  [op |-> "idle", tr |-> "none", then |-> "idle", arg |-> "none", k |-> 0,
   success_count |-> 0, attempted |-> 0, healthy |-> TRUE, written |-> <<>>,
   disc |-> "none", left |-> NoneLeft, twice |-> FALSE, same |-> TRUE]

\* What an emergency_stop call came to.  entered: it got past the connection
\* checks; ok: what it returned; attempted: the stop commands it tried to send;
\* healthy: the link took writes all through the call; written: the stop
\* commands the device received from it.
EstopResult(tr, entered, ok, m) ==
  [tr |-> tr, entered |-> entered, ok |-> ok, success_count |-> m.success_count,
   attempted |-> m.attempted, healthy |-> m.healthy, written |-> m.written]

ConnectionTypes == {"serial", "bluetooth"}

\* A receive thread that has not been started: pc is where it is in
\* _receive_data, data the decoded chunk in hand.
NoThread == [pc |-> "none", data |-> <<>>]

\* The value of an argument or a result before the call is made.
NoCall == [made |-> FALSE]

\* The transports and the manager after construction.
InitTransport ==
  /\ mgr_is_connected = FALSE
  /\ connection_type = "serial"
  /\ s_is_connected = FALSE
  /\ serial_connection = "None"
  /\ s_stop_send = FALSE
  /\ s_stop_receive = FALSE
  /\ send_queue = 0
  /\ lists = [id \in 0..MaxSends |-> <<>>]
  /\ send_lock = 0
  /\ b_is_connected = FALSE
  /\ client = "None"
  /\ characteristic_uuid = "None"
  /\ b_stop_send = FALSE
  /\ link_ok = TRUE
  /\ ops = 0
  /\ th = [c \in Calls |-> NewCall]
  /\ main = MainIdle
  /\ last_estop = EstopResult("never", FALSE, FALSE, MainIdle)
  /\ wire = <<>>

\* SerialConnection.__init__: no receive thread, an empty receive buffer.
InitReceive ==
  /\ receive_queue = <<>>
  /\ receive_thread = 0
  /\ rth = [r \in RecvThreads |-> NoThread]
  /\ arrived = <<>>

\* No optimize call and no generate call has been made.
InitPipeline ==
  /\ items = NoCall
  /\ optimized = NoCall
  /\ request = NoCall
  /\ gcode = NoCall

\* No transform_coordinates call has been made and no generator constructed.
\* No generator has been constructed and no generate call made.
InitEmitIdle ==
  /\ builder = NoCall
  /\ returned = <<>>
  /\ configs = NoCall

InitUtils ==
  /\ mapcall = NoCall
  /\ mapped = NoCall
  /\ rawconfig = NoCall
  /\ stored = NoCall
  /\ InitEmitIdle

Init == InitTransport /\ InitReceive /\ InitPipeline /\ InitUtils

\* ------------------------------------------------- wired transport: send
\* SerialConnection._send_line, up to the write: the line is refused when the
\* transport is not connected or the cancellation flag is set.
SerialSendLineRefused ==
  \/ ~s_is_connected
  \/ serial_connection = "None"
  \/ s_stop_send

\* serial_connection.write + flush: raises when the handle is gone or the link
\* does not take the bytes (SerialTimeoutException, SerialException).
SerialWriteOk == serial_connection = "open" /\ link_ok

\* SerialConnection.send_gcode up to the lock: the connection check and
\* stop_send.clear().  There is no check for a send already in progress.
SerialSendGcodeEnter(c, lines) ==
  IF ~s_is_connected \/ serial_connection = "None"
  THEN /\ th' = [th EXCEPT ![c].pc = "done", ![c].kind = "serial",
                           ![c].job = lines, ![c].result = "no_connection"]
       /\ UNCHANGED s_stop_send
  ELSE /\ s_stop_send' = FALSE
       /\ th' = [th EXCEPT ![c].pc = "enqueue", ![c].kind = "serial",
                           ![c].job = lines]

\* with self.send_lock: self.send_queue = gcode_lines.copy(); then the drain
\* thread is started and the call returns.
SerialEnqueue(c) ==
  /\ th[c].pc = "enqueue"
  /\ send_lock = 0
  /\ lists' = [lists EXCEPT ![c] = th[c].job]
  /\ send_queue' = c
  /\ th' = [th EXCEPT ![c].pc = "t_start", ![c].result = "started"]
  /\ UNCHANGED <<mgrvars, s_is_connected, serial_connection, s_stop_send,
                 s_stop_receive, send_lock, btvars, envvars, mainvars, wire>>
  /\ UNCHANGED sidevars

\* _send_gcode_thread, its first check.
SerialThreadStart(c) ==
  /\ th[c].pc = "t_start"
  /\ th[c].kind = "serial"
  /\ IF ~s_is_connected \/ serial_connection = "None"
     THEN th' = [th EXCEPT ![c] = Finished(th[c])]
     ELSE th' = [th EXCEPT ![c].pc = "init_chk", ![c].i = 1]
  /\ UNCHANGED <<mgrvars, serialvars, btvars, envvars, mainvars, wire>>
  /\ UNCHANGED sidevars

\* A drain loop that begins its payload after the first two init commands.
AfterInitShort(i) == IF i < Len(init_commands) - 1 THEN "init_chk" ELSE "acquire"

\* The pc after init command i has been dealt with.
AfterInit(i) == IF i < Len(init_commands) THEN "init_chk" ELSE "acquire"

\* for cmd in init_commands: if self.stop_send.is_set(): return
SerialInitCheck(c) ==
  /\ th[c].pc = "init_chk"
  /\ th[c].kind = "serial"
  /\ IF s_stop_send
     THEN th' = [th EXCEPT ![c] = Finished(th[c])]
     ELSE th' = [th EXCEPT ![c].pc = "init_send"]
  /\ UNCHANGED <<mgrvars, serialvars, btvars, envvars, mainvars, wire>>
  /\ UNCHANGED sidevars

\* self._send_line(cmd + '\n') of an init command, up to the write; a refused
\* line is logged and the loop goes on.
SerialInitSend(c) ==
  /\ th[c].pc = "init_send"
  /\ th[c].kind = "serial"
  /\ LET cmd == WithNewline(init_commands[th[c].i]) IN
     IF SerialSendLineRefused
     THEN th' = [th EXCEPT ![c].pc = AfterInit(th[c].i), ![c].i = @ + 1,
                           ![c].attempts = Append(@, <<"init", cmd>>)]
     ELSE th' = [th EXCEPT ![c].pc = "init_write",
                           ![c].attempts = Append(@, <<"init", cmd>>)]
  /\ UNCHANGED <<mgrvars, serialvars, btvars, envvars, mainvars, wire>>
  /\ UNCHANGED sidevars

\* The write of an init command; a failure is logged and the loop goes on.
SerialInitWrite(c) ==
  /\ th[c].pc = "init_write"
  /\ th[c].kind = "serial"
  /\ wire' = IF SerialWriteOk
             THEN Append(wire, <<c, "init", WithNewline(init_commands[th[c].i])>>)
             ELSE wire
  /\ th' = [th EXCEPT ![c].pc = AfterInit(th[c].i), ![c].i = @ + 1]
  /\ UNCHANGED <<mgrvars, serialvars, btvars, envvars, mainvars>>
  /\ UNCHANGED sidevars

\* with self.send_lock: for i, line in enumerate(self.send_queue, 1):
\* the loop iterates the list object send_queue names at this moment.
SerialAcquire(c) ==
  /\ th[c].pc = "acquire"
  /\ th[c].kind = "serial"
  /\ send_lock = 0
  /\ send_lock' = c
  /\ th' = [th EXCEPT ![c].pc = "p_chk", ![c].it = send_queue, ![c].i = 0,
                      ![c].sent_lines = 0, ![c].errors = 0,
                      ![c].drained = lists[send_queue]]
  /\ UNCHANGED <<mgrvars, s_is_connected, serial_connection, s_stop_send,
                 s_stop_receive, send_queue, lists, btvars, envvars, mainvars, wire>>
  /\ UNCHANGED sidevars

\* One turn of the payload loop up to _send_line: the iterator's next line,
\* the cancellation check, strip and the skip of blank and comment lines.
\* Leaving the loop releases the lock.
SerialPayloadCheck(c) ==
  /\ th[c].pc = "p_chk"
  /\ th[c].kind = "serial"
  /\ IF th[c].i >= Len(lists[th[c].it]) \/ s_stop_send
     THEN /\ th' = [th EXCEPT ![c].pc = "end_chk"]
          /\ send_lock' = 0
     ELSE /\ LET stripped == strip(lists[th[c].it][th[c].i + 1]) IN
             IF IsSkipped(stripped)
             THEN th' = [th EXCEPT ![c].i = @ + 1]
             ELSE th' = [th EXCEPT ![c].pc = "p_send", ![c].line = stripped]
          /\ UNCHANGED send_lock
  /\ UNCHANGED <<mgrvars, s_is_connected, serial_connection, s_stop_send,
                 s_stop_receive, send_queue, lists, btvars, envvars, mainvars, wire>>
  /\ UNCHANGED sidevars

\* self._send_line(line + '\n') of a payload line, up to the write.  A refused
\* line counts as an error, and sent_lines is incremented all the same.
SerialPayloadSend(c) ==
  /\ th[c].pc = "p_send"
  /\ th[c].kind = "serial"
  /\ LET cmd == WithNewline(th[c].line) IN
     IF SerialSendLineRefused
     THEN th' = [th EXCEPT ![c].pc = "p_chk", ![c].i = @ + 1,
                           ![c].errors = @ + 1, ![c].sent_lines = @ + 1,
                           ![c].attempts = Append(@, <<"payload", cmd>>)]
     ELSE th' = [th EXCEPT ![c].pc = "p_write",
                           ![c].attempts = Append(@, <<"payload", cmd>>)]
  /\ UNCHANGED <<mgrvars, serialvars, btvars, envvars, mainvars, wire>>
  /\ UNCHANGED sidevars

\* A payload write whose failure ends the payload loop.
SerialPayloadWriteAborting(c) ==
  /\ th[c].pc = "p_write"
  /\ th[c].kind = "serial"
  /\ IF SerialWriteOk
     THEN /\ wire' = Append(wire, <<c, "payload", WithNewline(th[c].line)>>)
          /\ th' = [th EXCEPT ![c].pc = "p_chk", ![c].i = @ + 1,
                              ![c].sent_lines = @ + 1]
          /\ UNCHANGED send_lock
     ELSE /\ wire' = wire
          /\ th' = [th EXCEPT ![c].pc = "end_chk", ![c].i = @ + 1,
                              ![c].errors = @ + 1, ![c].sent_lines = @ + 1,
                              ![c].raised = Raised(th[c])]
          /\ send_lock' = 0
  /\ UNCHANGED <<mgrvars, s_is_connected, serial_connection, s_stop_send,
                 s_stop_receive, send_queue, lists, btvars, envvars, mainvars>>
  /\ UNCHANGED sidevars

\* The write of a payload line.
SerialPayloadWrite(c) ==
  /\ th[c].pc = "p_write"
  /\ th[c].kind = "serial"
  /\ IF SerialWriteOk
     THEN /\ wire' = Append(wire, <<c, "payload", WithNewline(th[c].line)>>)
          /\ th' = [th EXCEPT ![c].pc = "p_chk", ![c].i = @ + 1,
                              ![c].sent_lines = @ + 1]
     ELSE /\ wire' = wire
          /\ th' = [th EXCEPT ![c].pc = "p_chk", ![c].i = @ + 1,
                              ![c].errors = @ + 1, ![c].sent_lines = @ + 1,
                              ![c].raised = Raised(th[c])]
  /\ UNCHANGED <<mgrvars, serialvars, btvars, envvars, mainvars>>
  /\ UNCHANGED sidevars

\* The pc after end command i has been dealt with.
AfterEnd(i) == IF i < Len(end_commands) THEN "e_send" ELSE "report"

\* if not self.stop_send.is_set(): the trailing commands are sent.
SerialEndCheck(c) ==
  /\ th[c].pc = "end_chk"
  /\ th[c].kind = "serial"
  /\ IF s_stop_send
     THEN th' = [th EXCEPT ![c].pc = "report"]
     ELSE th' = [th EXCEPT ![c].pc = "e_send", ![c].i = 1]
  /\ UNCHANGED <<mgrvars, serialvars, btvars, envvars, mainvars, wire>>
  /\ UNCHANGED sidevars

\* self._send_line(cmd + '\n') of a trailing command, up to the write.
SerialEndSend(c) ==
  /\ th[c].pc = "e_send"
  /\ th[c].kind = "serial"
  /\ LET cmd == WithNewline(end_commands[th[c].i]) IN
     IF SerialSendLineRefused
     THEN th' = [th EXCEPT ![c].pc = AfterEnd(th[c].i), ![c].i = @ + 1,
                           ![c].attempts = Append(@, <<"end", cmd>>)]
     ELSE th' = [th EXCEPT ![c].pc = "e_write",
                           ![c].attempts = Append(@, <<"end", cmd>>)]
  /\ UNCHANGED <<mgrvars, serialvars, btvars, envvars, mainvars, wire>>
  /\ UNCHANGED sidevars

\* The write of a trailing command.
SerialEndWrite(c) ==
  /\ th[c].pc = "e_write"
  /\ th[c].kind = "serial"
  /\ wire' = IF SerialWriteOk
             THEN Append(wire, <<c, "end", WithNewline(end_commands[th[c].i])>>)
             ELSE wire
  /\ th' = [th EXCEPT ![c].pc = AfterEnd(th[c].i), ![c].i = @ + 1,
                      ![c].raised = IF SerialWriteOk THEN @ ELSE Raised(th[c])]
  /\ UNCHANGED <<mgrvars, serialvars, btvars, envvars, mainvars>>
  /\ UNCHANGED sidevars

\* result_msg: "sent N lines, errors: E", with " (ПРЕРВАНО)" appended when
\* the flag is set at this moment.
SerialReport(c) ==
  /\ th[c].pc = "report"
  /\ th[c].kind = "serial"
  /\ th' = [th EXCEPT ![c] =
               [Finished(th[c]) EXCEPT
                  !.report = [made |-> TRUE, sent |-> th[c].sent_lines,
                              errors |-> th[c].errors,
                              interrupted |-> s_stop_send]]]
  /\ UNCHANGED <<mgrvars, serialvars, btvars, envvars, mainvars, wire>>
  /\ UNCHANGED sidevars

\* ---------------------------------------------- wireless transport: send
\* BluetoothConnection._send_line, up to the write.
BtSendLineRefused ==
  \/ ~b_is_connected
  \/ client = "None"
  \/ characteristic_uuid = "None"
  \/ b_stop_send

\* client.write_gatt_char: raises when the client or the characteristic is
\* gone or the link does not take the bytes.
BtWriteOk == client = "connected" /\ characteristic_uuid # "None" /\ link_ok

\* BluetoothConnection.send_gcode up to the init loop: the connection check
\* and stop_send.clear().  The drain loop runs inside the call.
BtSendGcodeEnter(c, lines) ==
  IF ~b_is_connected \/ client = "None" \/ characteristic_uuid = "None"
  THEN /\ th' = [th EXCEPT ![c].pc = "done", ![c].kind = "bluetooth",
                           ![c].job = lines, ![c].result = "no_connection"]
       /\ UNCHANGED b_stop_send
  ELSE /\ b_stop_send' = FALSE
       /\ th' = [th EXCEPT ![c].pc = "init_chk", ![c].kind = "bluetooth",
                           ![c].job = lines, ![c].i = 1, ![c].drained = lines]

\* The pc after init command i has been dealt with (wireless).
BtAfterInit(i) == IF i < Len(init_commands) THEN "init_chk" ELSE "p_chk"

\* What the loop counters are after init command i (wireless): the payload
\* loop starts with i, sent_lines, errors = 0.
BtInitNextIndex(i) == IF i < Len(init_commands) THEN i + 1 ELSE 0

\* for cmd in init_commands: if self.stop_send.is_set(): return False, ...
BtInitCheck(c) ==
  /\ th[c].pc = "init_chk"
  /\ th[c].kind = "bluetooth"
  /\ IF b_stop_send
     THEN th' = [th EXCEPT ![c] = [Finished(th[c]) EXCEPT !.result = "cancelled"]]
     ELSE th' = [th EXCEPT ![c].pc = "init_send"]
  /\ UNCHANGED <<mgrvars, serialvars, btvars, envvars, mainvars, wire>>
  /\ UNCHANGED sidevars

BtInitSend(c) ==
  /\ th[c].pc = "init_send"
  /\ th[c].kind = "bluetooth"
  /\ LET cmd == WithNewline(init_commands[th[c].i]) IN
     IF BtSendLineRefused
     THEN th' = [th EXCEPT ![c].pc = BtAfterInit(th[c].i),
                           ![c].i = BtInitNextIndex(@),
                           ![c].attempts = Append(@, <<"init", cmd>>)]
     ELSE th' = [th EXCEPT ![c].pc = "init_write",
                           ![c].attempts = Append(@, <<"init", cmd>>)]
  /\ UNCHANGED <<mgrvars, serialvars, btvars, envvars, mainvars, wire>>
  /\ UNCHANGED sidevars

BtInitWrite(c) ==
  /\ th[c].pc = "init_write"
  /\ th[c].kind = "bluetooth"
  /\ wire' = IF BtWriteOk
             THEN Append(wire, <<c, "init", WithNewline(init_commands[th[c].i])>>)
             ELSE wire
  /\ th' = [th EXCEPT ![c].pc = BtAfterInit(th[c].i),
                      ![c].i = BtInitNextIndex(@)]
  /\ UNCHANGED <<mgrvars, serialvars, btvars, envvars, mainvars>>
  /\ UNCHANGED sidevars

\* One turn of the payload loop over gcode_lines up to _send_line; a set flag
\* ends the call with a failure result and no final message.
BtPayloadCheck(c) ==
  /\ th[c].pc = "p_chk"
  /\ th[c].kind = "bluetooth"
  /\ IF th[c].i >= Len(th[c].job)
     THEN th' = [th EXCEPT ![c].pc = "end_chk"]
     ELSE IF b_stop_send
     THEN th' = [th EXCEPT ![c] = [Finished(th[c]) EXCEPT !.result = "cancelled"]]
     ELSE LET stripped == strip(th[c].job[th[c].i + 1]) IN
          IF IsSkipped(stripped)
          THEN th' = [th EXCEPT ![c].i = @ + 1]
          ELSE th' = [th EXCEPT ![c].pc = "p_send", ![c].line = stripped]
  /\ UNCHANGED <<mgrvars, serialvars, btvars, envvars, mainvars, wire>>
  /\ UNCHANGED sidevars

BtPayloadSend(c) ==
  /\ th[c].pc = "p_send"
  /\ th[c].kind = "bluetooth"
  /\ LET cmd == WithNewline(th[c].line) IN
     IF BtSendLineRefused
     THEN th' = [th EXCEPT ![c].pc = "p_chk", ![c].i = @ + 1,
                           ![c].errors = @ + 1, ![c].sent_lines = @ + 1,
                           ![c].attempts = Append(@, <<"payload", cmd>>)]
     ELSE th' = [th EXCEPT ![c].pc = "p_write",
                           ![c].attempts = Append(@, <<"payload", cmd>>)]
  /\ UNCHANGED <<mgrvars, serialvars, btvars, envvars, mainvars, wire>>
  /\ UNCHANGED sidevars

BtPayloadWrite(c) ==
  /\ th[c].pc = "p_write"
  /\ th[c].kind = "bluetooth"
  /\ IF BtWriteOk
     THEN /\ wire' = Append(wire, <<c, "payload", WithNewline(th[c].line)>>)
          /\ th' = [th EXCEPT ![c].pc = "p_chk", ![c].i = @ + 1,
                              ![c].sent_lines = @ + 1]
     ELSE /\ wire' = wire
          /\ th' = [th EXCEPT ![c].pc = "p_chk", ![c].i = @ + 1,
                              ![c].errors = @ + 1, ![c].sent_lines = @ + 1,
                              ![c].raised = Raised(th[c])]
  /\ UNCHANGED <<mgrvars, serialvars, btvars, envvars, mainvars>>
  /\ UNCHANGED sidevars

BtEndCheck(c) ==
  /\ th[c].pc = "end_chk"
  /\ th[c].kind = "bluetooth"
  /\ IF b_stop_send
     THEN th' = [th EXCEPT ![c].pc = "report"]
     ELSE th' = [th EXCEPT ![c].pc = "e_send", ![c].i = 1]
  /\ UNCHANGED <<mgrvars, serialvars, btvars, envvars, mainvars, wire>>
  /\ UNCHANGED sidevars

BtEndSend(c) ==
  /\ th[c].pc = "e_send"
  /\ th[c].kind = "bluetooth"
  /\ LET cmd == WithNewline(end_commands[th[c].i]) IN
     IF BtSendLineRefused
     THEN th' = [th EXCEPT ![c].pc = AfterEnd(th[c].i), ![c].i = @ + 1,
                           ![c].attempts = Append(@, <<"end", cmd>>)]
     ELSE th' = [th EXCEPT ![c].pc = "e_write",
                           ![c].attempts = Append(@, <<"end", cmd>>)]
  /\ UNCHANGED <<mgrvars, serialvars, btvars, envvars, mainvars, wire>>
  /\ UNCHANGED sidevars

BtEndWrite(c) ==
  /\ th[c].pc = "e_write"
  /\ th[c].kind = "bluetooth"
  /\ wire' = IF BtWriteOk
             THEN Append(wire, <<c, "end", WithNewline(end_commands[th[c].i])>>)
             ELSE wire
  /\ th' = [th EXCEPT ![c].pc = AfterEnd(th[c].i), ![c].i = @ + 1,
                      ![c].raised = IF BtWriteOk THEN @ ELSE Raised(th[c])]
  /\ UNCHANGED <<mgrvars, serialvars, btvars, envvars, mainvars>>
  /\ UNCHANGED sidevars

\* The final message and return True, result_msg.
BtReport(c) ==
  /\ th[c].pc = "report"
  /\ th[c].kind = "bluetooth"
  /\ th' = [th EXCEPT ![c] =
               [Finished(th[c]) EXCEPT
                  !.result = "ok",
                  !.report = [made |-> TRUE, sent |-> th[c].sent_lines,
                              errors |-> th[c].errors,
                              interrupted |-> b_stop_send]]]
  /\ UNCHANGED <<mgrvars, serialvars, btvars, envvars, mainvars, wire>>
  /\ UNCHANGED sidevars

\* ------------------------------------------------- ConnectionManager.send
\* Send requests are issued in the order of their ids.
NextCall(c) == th[c].pc = "idle" /\ \A d \in Calls : d < c => th[d].pc # "idle"

\* ConnectionManager.send_gcode: the manager's own check, then the transport
\* connection_type names.
ManagerSendGcode(c, lines) ==
  /\ NextCall(c)
  /\ ops + 2 <= MaxOps
  /\ ops' = ops + 2
  /\ IF ~mgr_is_connected
     THEN /\ th' = [th EXCEPT ![c].pc = "done", ![c].job = lines,
                              ![c].result = "no_connection"]
          /\ UNCHANGED <<s_stop_send, b_stop_send>>
     ELSE IF connection_type = "serial"
     THEN SerialSendGcodeEnter(c, lines) /\ UNCHANGED b_stop_send
     ELSE BtSendGcodeEnter(c, lines) /\ UNCHANGED s_stop_send
  /\ UNCHANGED <<mgrvars, s_is_connected, serial_connection, s_stop_receive,
                 send_queue, lists, send_lock, b_is_connected, client,
                 characteristic_uuid, link_ok, mainvars, wire>>
  /\ UNCHANGED sidevars

\* ------------------------------------------------------------ disconnect
\* A request is in flight from the moment send_gcode accepts it until its
\* drain loop ends.
InFlight(c) == th[c].pc \notin {"idle", "done"}

\* History: the requests in flight on transport tr have seen the flag set or
\* the transport disconnected.
MarkStopped(tr) ==
  [c \in Calls |->
     IF th[c].kind = tr /\ InFlight(c)
     THEN [th[c] EXCEPT !.stopped = TRUE]
     ELSE th[c]]

\* The first statements of a transport's disconnect: the loops are told to
\* stop.  (Wired: stop_send.set(), stop_receive.set(); wireless:
\* stop_send.set().)
DisconnectBegin(tr) ==
  /\ th' = MarkStopped(tr)
  /\ IF tr = "serial"
     THEN /\ s_stop_send' = TRUE
          /\ s_stop_receive' = TRUE
          /\ UNCHANGED b_stop_send
     ELSE /\ b_stop_send' = TRUE
          /\ UNCHANGED <<s_stop_send, s_stop_receive>>

\* History: the main thread inside a disconnect of transport tr, to go on with
\* step then; twice: the call before it was a disconnect of tr as well.
Disconnecting(tr, then, arg) ==
  [MainIdle EXCEPT !.op = "disc2", !.tr = tr, !.then = then, !.arg = arg,
                   !.twice = (main.disc = tr), !.left = main.left]

\* History: the main thread after the disconnect of transport tr that left the
\* transport as left; same: a second disconnect in a row left what the first
\* one did.
Disconnected(tr, left) ==
  [MainIdle EXCEPT !.op = main.then, !.arg = main.arg, !.disc = tr,
                   !.left = left, !.twice = main.twice,
                   !.same = (main.twice => main.left = left)]

\* SerialConnection.disconnect after the joins (each gives up after 1 s, and
\* only the latest drain thread is joined, so a drain thread may still run):
\* the port is closed, the handle dropped and the queue's list cleared in place.
SerialDisconnectFinish ==
  /\ main.op = "disc2"
  /\ main.tr = "serial"
  /\ serial_connection' = "None"
  /\ s_is_connected' = FALSE
  /\ lists' = [lists EXCEPT ![send_queue] = <<>>]
  /\ main' = Disconnected("serial",
                [ok |-> TRUE, is_connected |-> s_is_connected',
                 handle |-> serial_connection',
                 queue |-> lists'[send_queue], stop_send |-> s_stop_send,
                 stop_receive |-> s_stop_receive,
                 running |-> \E c \in Calls :
                               th[c].kind = "serial" /\ InFlight(c)])
  /\ th' = MarkStopped("serial")
  /\ UNCHANGED <<mgrvars, s_stop_send, s_stop_receive, send_queue, send_lock,
                 btvars, envvars, last_estop, wire>>
  /\ UNCHANGED sidevars

\* BluetoothConnection.disconnect after client.disconnect(): the fields are
\* reset and the flag cleared.
BtDisconnectFinish ==
  /\ main.op = "disc2"
  /\ main.tr = "bluetooth"
  /\ b_is_connected' = FALSE
  /\ client' = "None"
  /\ characteristic_uuid' = "None"
  /\ b_stop_send' = FALSE
  /\ main' = Disconnected("bluetooth",
                [ok |-> TRUE, is_connected |-> b_is_connected',
                 handle |-> client', queue |-> <<>>,
                 stop_send |-> b_stop_send', stop_receive |-> TRUE,
                 running |-> \E c \in Calls :
                               th[c].kind = "bluetooth" /\ InFlight(c)])
  /\ th' = MarkStopped("bluetooth")
  /\ UNCHANGED <<mgrvars, serialvars, envvars, last_estop, wire>>
  /\ UNCHANGED sidevars

\* ConnectionManager.disconnect: the transport connection_type names is
\* disconnected; the manager's own is_connected is left as it is.
ManagerDisconnect ==
  /\ main.op = "idle"
  /\ ops + 1 <= MaxOps
  /\ ops' = ops + 1
  /\ DisconnectBegin(connection_type)
  /\ main' = Disconnecting(connection_type, "idle", "none")
  /\ UNCHANGED <<mgrvars, s_is_connected, serial_connection, send_queue, lists,
                 send_lock, b_is_connected, client, characteristic_uuid,
                 link_ok, last_estop, wire>>
  /\ UNCHANGED sidevars

\* --------------------------------------------------------------- connect
\* A connect that leaves a live connection as it is.
ManagerConnectKeeping(type) ==
  /\ main.op = "idle"
  /\ ops + 1 <= MaxOps
  /\ ops' = ops + 1
  /\ main' = [MainIdle EXCEPT !.op = "dispatch", !.arg = type]
  /\ UNCHANGED <<s_stop_send, s_stop_receive, b_stop_send, th>>
  /\ UNCHANGED <<mgrvars, s_is_connected, serial_connection, send_queue, lists,
                 send_lock, b_is_connected, client, characteristic_uuid,
                 link_ok, last_estop, wire>>
  /\ UNCHANGED sidevars

\* ConnectionManager.connect, its first statement: a live connection is
\* disconnected first.
ManagerConnect(type) ==
  /\ main.op = "idle"
  /\ ops + 1 <= MaxOps
  /\ ops' = ops + 1
  /\ IF mgr_is_connected
     THEN /\ DisconnectBegin(connection_type)
          /\ main' = Disconnecting(connection_type, "dispatch", type)
     ELSE /\ main' = [MainIdle EXCEPT !.op = "dispatch", !.arg = type]
          /\ UNCHANGED <<s_stop_send, s_stop_receive, b_stop_send, th>>
  /\ UNCHANGED <<mgrvars, s_is_connected, serial_connection, send_queue, lists,
                 send_lock, b_is_connected, client, characteristic_uuid,
                 link_ok, last_estop, wire>>
  /\ UNCHANGED sidevars

\* self.connection_type = connection_type, and the transport's connect up to
\* the open: a transport that is still connected disconnects itself first.
ManagerConnectDispatch ==
  /\ main.op = "dispatch"
  /\ connection_type' = main.arg
  /\ IF (main.arg = "serial" /\ s_is_connected)
        \/ (main.arg = "bluetooth" /\ b_is_connected)
     THEN /\ DisconnectBegin(main.arg)
          /\ main' = Disconnecting(main.arg, "open", main.arg)
     ELSE /\ main' = [main EXCEPT !.op = "open"]
          /\ UNCHANGED <<s_stop_send, s_stop_receive, b_stop_send, th>>
  /\ UNCHANGED <<mgr_is_connected, s_is_connected, serial_connection,
                 send_queue, lists, send_lock, b_is_connected, client,
                 characteristic_uuid, envvars, last_estop, wire>>
  /\ UNCHANGED sidevars

\* SerialConnection.connect: stop_receive.clear(), stop_send.clear(), before
\* the port is opened.
SerialConnectClear ==
  /\ main.op = "open"
  /\ main.arg = "serial"
  /\ s_stop_receive' = FALSE
  /\ s_stop_send' = FALSE
  /\ main' = [main EXCEPT !.op = "opening"]
  /\ UNCHANGED <<mgrvars, s_is_connected, serial_connection, send_queue, lists,
                 send_lock, btvars, envvars, th, last_estop, wire>>
  /\ UNCHANGED sidevars

\* serial.Serial(...) opens the port or raises; the manager stores the
\* result in its is_connected.
SerialConnectOpen(ok) ==
  /\ main.op = "opening"
  /\ IF ok
     THEN /\ serial_connection' = "open"
          /\ s_is_connected' = TRUE
          /\ s_stop_receive' = FALSE
     ELSE UNCHANGED <<serial_connection, s_is_connected, s_stop_receive>>
  /\ mgr_is_connected' = ok
  /\ main' = MainIdle
  /\ UNCHANGED <<connection_type, s_stop_send, send_queue, lists, send_lock,
                 btvars, envvars, th, last_estop, wire>>
  /\ UNCHANGED sidevars

\* BluetoothConnection.connect: the client is created and connects or raises;
\* the write characteristic is looked up and may not be found.
BtConnectOpen(ok, uuid) ==
  /\ main.op = "open"
  /\ main.arg = "bluetooth"
  /\ IF ok
     THEN /\ client' = "connected"
          /\ b_is_connected' = TRUE
          /\ characteristic_uuid' = uuid
     ELSE /\ client' = "unconnected"
          /\ UNCHANGED <<b_is_connected, characteristic_uuid>>
  /\ mgr_is_connected' = ok
  /\ main' = MainIdle
  /\ UNCHANGED <<connection_type, serialvars, b_stop_send, envvars, th,
                 last_estop, wire>>
  /\ UNCHANGED sidevars

\* -------------------------------------------------------- emergency stop
\* The payload lines of request c the device has received.
PayloadOnWire(c) == SelectSeq(wire, LAMBDA e : e[1] = c /\ e[2] = "payload")

\* The payload lines request c has handed to _send_line.
PayloadAttempts(c) == SelectSeq(th[c].attempts, LAMBDA a : a[1] = "payload")

\* History: emergency_stop sets the flag of transport tr; the requests in
\* flight on it are cancelled.
MarkCancelled(tr) ==
  [c \in Calls |->
     IF th[c].kind = tr /\ InFlight(c) /\ ~th[c].cancelled
     THEN [th[c] EXCEPT !.stopped = TRUE, !.cancelled = TRUE,
                        !.pcAtCancel = th[c].pc,
                        !.sentAtCancel = Len(PayloadOnWire(c)),
                        !.triedAtCancel = Len(PayloadAttempts(c))]
     ELSE th[c]]

\* b'\x18' is written as it is, the other commands as cmd + '\n'.
SerialEstopBytes(cmd) == IF cmd = "\\x18" THEN <<cmd>> ELSE <<cmd, "\n">>

\* ConnectionManager.emergency_stop up to the transport's loop over its stop
\* commands.  On the wired transport the manager sets the flag itself before
\* it calls SerialConnection.emergency_stop, which sets it again.
ManagerEmergencyStop ==
  /\ main.op = "idle"
  /\ ops + 1 <= MaxOps
  /\ ops' = ops + 1
  /\ IF ~mgr_is_connected
     THEN /\ last_estop' = EstopResult("none", FALSE, FALSE, MainIdle)
          /\ UNCHANGED <<main, th, s_stop_send, b_stop_send>>
     ELSE IF connection_type = "serial"
     THEN /\ s_stop_send' = TRUE
          /\ th' = MarkCancelled("serial")
          /\ IF ~s_is_connected
             THEN /\ last_estop' = EstopResult("serial", FALSE, FALSE, MainIdle)
                  /\ UNCHANGED main
             ELSE /\ main' = [MainIdle EXCEPT !.op = "estop_serial", !.k = 1]
                  /\ UNCHANGED last_estop
          /\ UNCHANGED b_stop_send
     ELSE /\ IF ~b_is_connected
             THEN /\ last_estop' = EstopResult("bluetooth", FALSE, FALSE, MainIdle)
                  /\ UNCHANGED <<main, th, b_stop_send>>
             ELSE /\ b_stop_send' = TRUE
                  /\ th' = MarkCancelled("bluetooth")
                  /\ main' = [MainIdle EXCEPT !.op = "estop_bt", !.k = 1]
                  /\ UNCHANGED last_estop
          /\ UNCHANGED s_stop_send
  /\ UNCHANGED <<mgrvars, s_is_connected, serial_connection, s_stop_receive,
                 send_queue, lists, send_lock, b_is_connected, client,
                 characteristic_uuid, link_ok, wire>>
  /\ UNCHANGED sidevars

\* The loop state after one stop command: ok tells whether it was accepted,
\* bytes is what was to be written.
EstopTurn(ok, bytes) ==
  [main EXCEPT !.k = @ + 1,
               !.success_count = IF ok THEN @ + 1 ELSE @,
               !.attempted = @ + 1,
               !.healthy = @ /\ link_ok,
               !.written = IF ok THEN Append(@, bytes) ELSE @]

\* SerialConnection.emergency_stop: one turn of the loop over the stop
\* commands, each written inside its own try/except; after the last one the
\* unread input is discarded and the call returns True.
SerialEmergencyStopWrite ==
  /\ main.op = "estop_serial"
  /\ LET ok == SerialWriteOk
         bytes == SerialEstopBytes(serial_emergency_commands[main.k])
     IN /\ wire' = IF ok THEN Append(wire, <<0, "estop", bytes>>) ELSE wire
        /\ IF main.k < Len(serial_emergency_commands)
           THEN /\ main' = EstopTurn(ok, bytes)
                /\ UNCHANGED last_estop
           ELSE /\ main' = MainIdle
                /\ last_estop' =
                     EstopResult("serial", TRUE, TRUE, EstopTurn(ok, bytes))
  /\ UNCHANGED <<mgrvars, serialvars, btvars, envvars, th>>
  /\ UNCHANGED sidevars

\* BluetoothConnection.emergency_stop: one turn of the loop over the stop
\* commands, each sent with _send_line (which refuses a line while the flag
\* is set); the call returns success_count > 0.
BtEmergencyStopWrite ==
  /\ main.op = "estop_bt"
  /\ LET ok == ~BtSendLineRefused /\ BtWriteOk
         bytes == bt_emergency_commands[main.k]
     IN /\ wire' = IF ok THEN Append(wire, <<0, "estop", bytes>>) ELSE wire
        /\ IF main.k < Len(bt_emergency_commands)
           THEN /\ main' = EstopTurn(ok, bytes)
                /\ UNCHANGED last_estop
           ELSE /\ main' = MainIdle
                /\ last_estop' =
                     EstopResult("bluetooth", TRUE,
                                 EstopTurn(ok, bytes).success_count > 0,
                                 EstopTurn(ok, bytes))
  /\ UNCHANGED <<mgrvars, serialvars, btvars, envvars, th>>
  /\ UNCHANGED sidevars

\* ------------------------------------------------------------ environment
\* The link stops or starts taking writes.
LinkChange ==
  /\ ops + 1 <= MaxOps
  /\ ops' = ops + 1
  /\ link_ok' = ~link_ok
  /\ th' = [c \in Calls |-> [th[c] EXCEPT !.raised = 0]]
  /\ UNCHANGED <<mgrvars, serialvars, btvars, mainvars, wire>>
  /\ UNCHANGED sidevars

\* ------------------------------------------------------------------ spec
SerialThread(c) ==
  \/ SerialEnqueue(c)
  \/ SerialThreadStart(c)
  \/ SerialInitCheck(c)
  \/ SerialInitSend(c)
  \/ SerialInitWrite(c)
  \/ SerialAcquire(c)
  \/ SerialPayloadCheck(c)
  \/ SerialPayloadSend(c)
  \/ SerialPayloadWrite(c)
  \/ SerialEndCheck(c)
  \/ SerialEndSend(c)
  \/ SerialEndWrite(c)
  \/ SerialReport(c)

BtCall(c) ==
  \/ BtInitCheck(c)
  \/ BtInitSend(c)
  \/ BtInitWrite(c)
  \/ BtPayloadCheck(c)
  \/ BtPayloadSend(c)
  \/ BtPayloadWrite(c)
  \/ BtEndCheck(c)
  \/ BtEndSend(c)
  \/ BtEndWrite(c)
  \/ BtReport(c)

MainThread ==
  \/ \E type \in ConnectionTypes : ManagerConnect(type)
  \/ ManagerConnectDispatch
  \/ SerialConnectClear
  \/ \E ok \in BOOLEAN : SerialConnectOpen(ok)
  \/ \E ok \in BOOLEAN, uuid \in {"None", "uuid"} : BtConnectOpen(ok, uuid)
  \/ ManagerDisconnect
  \/ SerialDisconnectFinish
  \/ BtDisconnectFinish
  \/ ManagerEmergencyStop
  \/ SerialEmergencyStopWrite
  \/ BtEmergencyStopWrite

Next ==
  \/ MainThread
  \/ \E c \in Calls, lines \in Jobs : ManagerSendGcode(c, lines)
  \/ \E c \in Calls : SerialThread(c)
  \/ \E c \in Calls : BtCall(c)
  \/ LinkChange

Spec == Init /\ [][Next]_vars

\* ---------------------------------------------- wired transport: receive
\* Spec leaves the receive loop out: it shares nothing with the send side but
\* the stop_receive flag and the link handle.  SpecRecv runs it against
\* connect, disconnect and the link.

\* len(self.receive_queue) > 20
ReceiveLimit == 20

\* What the port hands to a read: whitespace only, or a line with whitespace
\* around it.
Chunks == {LBlank, LB}

\* f"[{timestamp}] {decoded_data}": the arrival number n stands for the time.
Stamped(n, data) == <<n, data>>

\* SerialConnection.connect from the open on, with the start of the receive
\* thread; the manager stores the result in its is_connected.
SerialConnectOpenReceiving(ok) ==
  /\ main.op = "opening"
  /\ IF ok
     THEN /\ \E r \in RecvThreads :
               /\ rth[r].pc = "none"
               /\ \A q \in RecvThreads : q < r => rth[q].pc # "none"
               /\ rth' = [rth EXCEPT ![r].pc = "check"]
               /\ receive_thread' = r
          /\ serial_connection' = "open"
          /\ s_is_connected' = TRUE
          /\ s_stop_receive' = FALSE
     ELSE UNCHANGED <<serial_connection, s_is_connected, s_stop_receive, rth,
                      receive_thread>>
  /\ mgr_is_connected' = ok
  /\ main' = MainIdle
  /\ UNCHANGED <<connection_type, s_stop_send, send_queue, lists, send_lock,
                 btvars, envvars, th, last_estop, wire, receive_queue, arrived,
                 optvars, genvars, utilvars, emitvars>>

\* while not self.stop_receive.is_set() and self.serial_connection and
\* self.serial_connection.is_open
RecvLoopCheck(r) ==
  /\ rth[r].pc = "check"
  /\ IF s_stop_receive \/ serial_connection # "open"
     THEN rth' = [rth EXCEPT ![r].pc = "done"]
     ELSE rth' = [rth EXCEPT ![r].pc = "poll"]
  /\ UNCHANGED <<mgrvars, serialvars, btvars, envvars, th, mainvars, wire,
                 receive_queue, receive_thread, arrived, optvars, genvars, utilvars, emitvars>>

\* in_waiting and read: nothing is waiting (chunk <<>>), or a chunk is read,
\* decoded and stripped.  A handle that is gone raises AttributeError, which is
\* logged; a dead link raises SerialException, which ends the loop.
RecvPoll(r, chunk) ==
  /\ rth[r].pc = "poll"
  /\ IF serial_connection # "open"
     THEN rth' = [rth EXCEPT ![r].pc = "check"]
     ELSE IF ~link_ok
     THEN rth' = [rth EXCEPT ![r].pc = "done"]
     ELSE IF strip(chunk) = <<>>
     THEN rth' = [rth EXCEPT ![r].pc = "check"]
     ELSE /\ Len(arrived) < MaxChunks
          /\ rth' = [rth EXCEPT ![r].pc = "append", ![r].data = strip(chunk)]
  /\ UNCHANGED <<mgrvars, serialvars, btvars, envvars, th, mainvars, wire,
                 receive_queue, receive_thread, arrived, optvars, genvars, utilvars, emitvars>>

\* self.receive_queue.append(f"[{timestamp}] {decoded_data}")
RecvAppend(r) ==
  /\ rth[r].pc = "append"
  /\ LET entry == Stamped(Len(arrived) + 1, rth[r].data) IN
       /\ receive_queue' = Append(receive_queue, entry)
       /\ arrived' = Append(arrived, entry)
  /\ rth' = [rth EXCEPT ![r].pc = "trim"]
  /\ UNCHANGED <<mgrvars, serialvars, btvars, envvars, th, mainvars, wire,
                 receive_thread, optvars, genvars, utilvars, emitvars>>

\* A trim that drops the newest entry.
RecvTrimNewest(r) ==
  /\ rth[r].pc = "trim"
  /\ receive_queue' = IF Len(receive_queue) > ReceiveLimit
                      THEN SubSeq(receive_queue, 1, Len(receive_queue) - 1)
                      ELSE receive_queue
  /\ rth' = [rth EXCEPT ![r].pc = "check", ![r].data = <<>>]
  /\ UNCHANGED <<mgrvars, serialvars, btvars, envvars, th, mainvars, wire,
                 receive_thread, arrived, optvars, genvars, utilvars, emitvars>>

\* if len(self.receive_queue) > 20: self.receive_queue.pop(0); then the
\* status update and the sleep.
RecvTrim(r) ==
  /\ rth[r].pc = "trim"
  /\ receive_queue' = IF Len(receive_queue) > ReceiveLimit
                      THEN Tail(receive_queue)
                      ELSE receive_queue
  /\ rth' = [rth EXCEPT ![r].pc = "check", ![r].data = <<>>]
  /\ UNCHANGED <<mgrvars, serialvars, btvars, envvars, th, mainvars, wire,
                 receive_thread, arrived, optvars, genvars, utilvars, emitvars>>

ReceiveThread(r) ==
  \/ RecvLoopCheck(r)
  \/ \E chunk \in Chunks \cup {<<>>} : RecvPoll(r, chunk)
  \/ RecvAppend(r)
  \/ RecvTrim(r)

NextRecv ==
  \/ ManagerConnect("serial")
  \/ ManagerConnectDispatch
  \/ SerialConnectClear
  \/ \E ok \in BOOLEAN : SerialConnectOpenReceiving(ok)
  \/ ManagerDisconnect
  \/ SerialDisconnectFinish
  \/ LinkChange
  \/ \E r \in RecvThreads : ReceiveThread(r)

SpecRecv == Init /\ [][NextRecv]_vars

\* ------------------------------------------------------------- optimizer
\* src/gcode_generator.py.  A point is <<x, y>>, a stroke (a contour or a
\* hatching line) a sequence of points.  The strokes of the inputs: PA ends at
\* (4,0); PB and PC start at the same distance from there, PE starts nearer;
\* PD has a single point.
PA == << <<0, 0>>, <<4, 0>> >>
PB == << <<4, 3>>, <<0, 0>> >>
PC == << <<1, 0>>, <<1, 1>>, <<4, 4>> >>
PD == << <<9, 9>> >>
PE == << <<4, 1>>, <<8, 8>> >>

Polylines == {PA, PB, PC, PD, PE}

\* The lists of at most MaxStrokes strokes.
StrokeLists == UNION {[1..n -> Polylines] : n \in 0..MaxStrokes}

\* math.hypot(dx, dy) is compared only with other such values: the square of
\* the distance orders them the same way.
Dist2(p, q) == (p[1] - q[1]) * (p[1] - q[1]) + (p[2] - q[2]) * (p[2] - q[2])

\* float('inf'), as a squared distance.
Inf == -1

\* dist < min_dist
Less(dist, min_dist) == min_dist = Inf \/ dist < min_dist

\* _extract_points: the (start, end) pairs of the strokes that have at least
\* two points, in order.
extract_points(strokes) ==
  LET long == SelectSeq(strokes, LAMBDA st : Len(st) >= 2) IN
  [k \in 1..Len(long) |-> <<long[k][1], long[k][Len(long[k])]>>]

\* for i in range(n): if not visited[i]: ... if dist < min_dist: ...
\* The scan from index i on; the result is next_idx (0 stands for -1).
RECURSIVE NearestFrom(_, _, _, _, _, _)
NearestFrom(points, visited, last_end, i, min_dist, next_idx) ==
  IF i > Len(points) THEN next_idx
  ELSE IF i \notin visited /\ Less(Dist2(last_end, points[i][1]), min_dist)
  THEN NearestFrom(points, visited, last_end, i + 1,
                   Dist2(last_end, points[i][1]), i)
  ELSE NearestFrom(points, visited, last_end, i + 1, min_dist, next_idx)

\* The outer loop of _greedy_sort: order so far -> the complete order.  When
\* the scan finds nothing the first unvisited index is taken.
RECURSIVE GreedyLoop(_, _)
GreedyLoop(points, order) ==
  IF Len(order) >= Len(points) THEN order
  ELSE LET visited == {order[k] : k \in 1..Len(order)}
           last_end == points[order[Len(order)]][2]
           next_idx == NearestFrom(points, visited, last_end, 1, Inf, 0)
           first == CHOOSE i \in 1..Len(points) :
                      /\ i \notin visited
                      /\ \A j \in 1..Len(points) : j \notin visited => i <= j
       IN GreedyLoop(points,
                     Append(order, IF next_idx # 0 THEN next_idx ELSE first))

\* _greedy_sort: the indices (from 1) in the order of visit.
greedy_sort(points) ==
  IF Len(points) <= 1 THEN [k \in 1..Len(points) |-> k]
  ELSE GreedyLoop(points, <<1>>)

\* optimize: the indices the returned list is made of.  The indices come from
\* the list of extracted points and are applied to the list of strokes.
optimized_indices(strokes) ==
  IF Len(strokes) <= 1 THEN [k \in 1..Len(strokes) |-> k]
  ELSE IF extract_points(strokes) = <<>> THEN [k \in 1..Len(strokes) |-> k]
  ELSE greedy_sort(extract_points(strokes))

\* optimize: [contours[i] for i in optimized_indices]
optimize(strokes) ==
  [k \in 1..Len(optimized_indices(strokes)) |->
     strokes[optimized_indices(strokes)[k]]]

\* An optimize call on a list of strokes of one kind.
OptimizeCalls ==
  {[made |-> TRUE, kind |-> k, strokes |-> l] :
     k \in {"contour", "hatching"}, l \in StrokeLists}

InitOpt ==
  /\ InitTransport
  /\ InitReceive
  /\ items \in OptimizeCalls
  /\ optimized = NoCall
  /\ request = NoCall
  /\ gcode = NoCall
  /\ InitUtils

\* ContourOptimization.optimize
ContourOptimize ==
  /\ items.kind = "contour"
  /\ ~optimized.made
  /\ optimized' = [made |-> TRUE, order |-> optimized_indices(items.strokes),
                   strokes |-> optimize(items.strokes)]
  /\ UNCHANGED <<mgrvars, serialvars, btvars, envvars, th, mainvars, wire,
                 recvvars, items, genvars, utilvars, emitvars>>

\* HatchingOptimization.optimize
HatchingOptimize ==
  /\ items.kind = "hatching"
  /\ ~optimized.made
  /\ optimized' = [made |-> TRUE, order |-> optimized_indices(items.strokes),
                   strokes |-> optimize(items.strokes)]
  /\ UNCHANGED <<mgrvars, serialvars, btvars, envvars, th, mainvars, wire,
                 recvvars, items, genvars, utilvars, emitvars>>

NextOpt == ContourOptimize \/ HatchingOptimize

SpecOpt == InitOpt /\ [][NextOpt]_vars

\* ------------------------------------------------------------- generator
\* src/gcode_generator.py and src/utils.py.  Pixel coordinates are integers;
\* lengths in mm (machine coordinates, Z, the work area) and scale_factor are
\* counted in thousandths.  The inputs are chosen so that every mapped
\* coordinate is a multiple of 0.125 mm: such a value is exact in binary
\* floating point, and no distance equals a decimation threshold.

\* z is None; a Z value v is <<v>>.
NoZ == <<>>

\* max(lo, min(v, hi))
Clamp(lo, v, hi) == IF v < lo THEN lo ELSE IF v > hi THEN hi ELSE v

\* validate_numeric_input on a number.
validate_numeric_input(value, min_val, max_val) ==
  IF value < min_val THEN min_val
  ELSE IF value > max_val THEN max_val
  ELSE value

\* GCodeGenerator._validate_config: every numeric option is clamped to its
\* range, the boolean options are taken as they are.
validate_config(config) ==
  [config EXCEPT
     !.scale_factor = validate_numeric_input(@, 10, 1000),
     !.pen_up_z = validate_numeric_input(@, 1000, 50000),
     !.pen_down_z = validate_numeric_input(@, -10000, -100),
     !.hatch_depth = validate_numeric_input(@, -10000, -100),
     !.feed_rate = validate_numeric_input(@, 100, 5000),
     !.rapid_feed_rate = validate_numeric_input(@, 500, 10000),
     !.work_area_x = validate_numeric_input(@, 50000, 1000000),
     !.work_area_y = validate_numeric_input(@, 50000, 1000000)]

\* calculate_safe_z: max(pen_up_z, safety_margin), safety_margin = 5.0
calculate_safe_z(pen_up_z) == IF pen_up_z > 5000 THEN pen_up_z ELSE 5000

\* A transform_coordinates that does not invert the row.
transform_unflipped(x, y, image_width, image_height, scale_factor, work_area_x, work_area_y) ==
  << Clamp(0, x * scale_factor
                + (work_area_x - image_width * scale_factor) \div 2,
           work_area_x),
     Clamp(0, y * scale_factor
                + (work_area_y - image_height * scale_factor) \div 2,
           work_area_y) >>

\* A transform_coordinates that does not clamp.
transform_unclamped(x, y, image_width, image_height, scale_factor, work_area_x, work_area_y) ==
  << x * scale_factor + (work_area_x - image_width * scale_factor) \div 2,
     (image_height - y) * scale_factor
       + (work_area_y - image_height * scale_factor) \div 2 >>

\* transform_coordinates: the image row is inverted, the point scaled,
\* centred in the work area and clamped to it.
transform_coordinates(x, y, image_width, image_height, scale_factor, work_area_x, work_area_y) ==
  LET x_offset == (work_area_x - image_width * scale_factor) \div 2
      y_offset == (work_area_y - image_height * scale_factor) \div 2
  IN << Clamp(0, x * scale_factor + x_offset, work_area_x),
        Clamp(0, (image_height - y) * scale_factor + y_offset, work_area_y) >>

\* f"{v:.2f}": a value in thousandths becomes hundredths, the nearest one, and
\* the even one when it lies halfway (the value is exact in binary).
Format2(v) ==
  LET a == IF v < 0 THEN 0 - v ELSE v
      q == a \div 10
      r == a % 10
      h == IF r < 5 THEN q
           ELSE IF r > 5 THEN q + 1
           ELSE IF q % 2 = 0 THEN q ELSE q + 1
  IN IF v < 0 THEN 0 - h ELSE h

\* A line of the document that is not a movement: a code or a comment.
TextLine(text) ==
  [op |-> text, x |-> 0, y |-> 0, z |-> NoZ, f |-> 0, role |-> "text",
   cat |-> "none", at |-> <<0, 0>>, pt |-> 0, stroke |-> <<>>]

\* GCodeBuilder.add_movement: G0 without a feed rate, G1 with one; X and Y
\* clamped to [0, 1000], Z to [-20, 50], all three written with two decimals.
\* role stands for the comment of the line; cat (the category of the stroke),
\* at (the position asked for, in thousandths), pt (the index of the source
\* point a drawing move goes to) and stroke (the source points of the stroke
\* the line belongs to) are read by the properties.
add_movement(x, y, z, feed_rate, role, cat) ==
  [op |-> IF feed_rate = 0 THEN "G0" ELSE "G1",
   x |-> Format2(Clamp(0, x, 1000000)),
   y |-> Format2(Clamp(0, y, 1000000)),
   z |-> IF z = NoZ THEN NoZ ELSE <<Format2(Clamp(-20000, z[1], 50000))>>,
   f |-> feed_rate, role |-> role, cat |-> cat, at |-> <<x, y>>, pt |-> 0,
   stroke |-> <<>>]

\* GCodeBuilder.add_section_header
add_section_header(title) ==
  <<TextLine(""), TextLine("; ="), TextLine(title), TextLine("; ="),
    TextLine("")>>

\* The mapped position of a pixel under a request.
Mapped(p, rq) ==
  transform_coordinates(p[1], p[2], rq.image_width, rq.image_height,
                        rq.config.scale_factor, rq.config.work_area_x,
                        rq.config.work_area_y)

\* math.hypot(x_mm - last_x, y_mm - last_y) > min_dist, min_dist in
\* thousandths.
Beyond(p, last, min_dist) == Dist2(p, last) > min_dist * min_dist

\* A loop that makes a drawing move to every point, however near.
DrawLoopAll(points, j, last, cur, min_dist, cat, rq) ==
  [moves |-> [i \in 1..(Len(points) - j + 1) |->
                LET p == Mapped(points[i + j - 1], rq) IN
                [add_movement(p[1], p[2], NoZ, rq.config.feed_rate, "draw", cat)
                   EXCEPT !.pt = i + j - 1]],
   last |-> IF j > Len(points) THEN last ELSE Mapped(points[Len(points)], rq),
   cur |-> IF j > Len(points) THEN cur ELSE Mapped(points[Len(points)], rq)]

\* for j in range(1, len(points)): a drawing move to each mapped point that
\* lies beyond min_dist from the last emitted one.  The result: the moves, the
\* last emitted position (last) and the last mapped one (cur).
RECURSIVE DrawLoop(_, _, _, _, _, _, _)
DrawLoop(points, j, last, cur, min_dist, cat, rq) ==
  IF j > Len(points) THEN [moves |-> <<>>, last |-> last, cur |-> cur]
  ELSE LET p == Mapped(points[j], rq) IN
       IF Beyond(p, last, min_dist)
       THEN LET rest == DrawLoop(points, j + 1, p, p, min_dist, cat, rq) IN
            [rest EXCEPT
               !.moves = <<[add_movement(p[1], p[2], NoZ, rq.config.feed_rate,
                                         "draw", cat) EXCEPT !.pt = j]>>
                         \o @]
       ELSE DrawLoop(points, j + 1, last, p, min_dist, cat, rq)

\* min_dist = 0.3 (contours) and min_dist = 0.2 (hatching), in thousandths.
ContourMinDist == 300
HatchingMinDist == 200

\* self.safe_z
SafeZ(rq) == calculate_safe_z(rq.config.pen_up_z)

\* A stroke start that plunges to the safe height.
StrokeStartAtSafeZ(start, depth, cat, rq) ==
  << add_movement(start[1], start[2], NoZ, rq.config.rapid_feed_rate,
                  "to_start", cat),
     add_movement(start[1], start[2], <<SafeZ(rq)>>, rq.config.feed_rate \div 2,
                  "plunge", cat) >>

\* The positioning move to the start of a stroke and the plunge to the
\* drawing depth at half the feed rate.
StrokeStart(start, depth, cat, rq) ==
  << add_movement(start[1], start[2], NoZ, rq.config.rapid_feed_rate,
                  "to_start", cat),
     add_movement(start[1], start[2], <<depth>>, rq.config.feed_rate \div 2,
                  "plunge", cat) >>

\* The retract at the end of a stroke.
Retract(p, cat, rq) ==
  << add_movement(p[1], p[2], <<SafeZ(rq)>>, rq.config.rapid_feed_rate,
                  "retract", cat) >>

\* A closing move that is never made.
closing_move_never(contour, start, last, rq) == <<>>

\* if len(contour) > 2: the move back to the mapped first point, unless the
\* last emitted position lies within min_dist of it.
closing_move(contour, start, last, rq) ==
  IF Len(contour) > 2 /\ Beyond(start, last, ContourMinDist)
  THEN << add_movement(start[1], start[2], NoZ, rq.config.feed_rate,
                       "close", "contour") >>
  ELSE <<>>

\* GCodeGenerator._process_contour
process_contour(contour, rq) ==
  LET start == Mapped(contour[1], rq)
      loop == DrawLoop(contour, 2, start, start, ContourMinDist, "contour", rq)
  IN StrokeStart(start, rq.config.pen_down_z, "contour", rq)
     \o loop.moves
     \o closing_move(contour, start, loop.last, rq)
     \o Retract(IF Len(contour) > 2 THEN start ELSE loop.cur, "contour", rq)

\* A hatching line that is left without plunge and retract when none of its
\* points is drawn.
process_hatching_line_bare(line, rq) ==
  LET start == Mapped(line[1], rq)
      loop == DrawLoop(line, 2, start, start, HatchingMinDist, "hatching",
                       rq)
  IN IF loop.moves = <<>>
     THEN << add_movement(start[1], start[2], NoZ, rq.config.rapid_feed_rate,
                          "to_start", "hatching") >>
     ELSE StrokeStart(start, rq.config.hatch_depth, "hatching", rq)
          \o loop.moves
          \o Retract(loop.cur, "hatching", rq)

\* A hatching line that is plunged to the depth of the contours.
process_hatching_line_as_contour(line, rq) ==
  LET start == Mapped(line[1], rq)
      loop == DrawLoop(line, 2, start, start, HatchingMinDist, "hatching",
                       rq)
  IN StrokeStart(start, rq.config.pen_down_z, "hatching", rq)
     \o loop.moves
     \o Retract(loop.cur, "hatching", rq)

\* GCodeGenerator._process_hatching_line
process_hatching_line(line, rq) ==
  LET start == Mapped(line[1], rq)
      loop == DrawLoop(line, 2, start, start, HatchingMinDist, "hatching",
                       rq)
  IN StrokeStart(start, rq.config.hatch_depth, "hatching", rq)
     \o loop.moves
     \o Retract(loop.cur, "hatching", rq)

\* The lines of one stroke, each marked with the source points of the stroke.
OfStroke(lines, stroke) ==
  [k \in 1..Len(lines) |-> [lines[k] EXCEPT !.stroke = stroke]]

\* for i, contour in enumerate(contours): contours of fewer than three points
\* are skipped; the others get a comment, their moves and an empty line.
RECURSIVE ContoursFrom(_, _, _)
ContoursFrom(contours, i, rq) ==
  IF i > Len(contours) THEN <<>>
  ELSE IF Len(contours[i]) < 3 THEN ContoursFrom(contours, i + 1, rq)
  ELSE <<TextLine("; contour")>>
       \o OfStroke(process_contour(contours[i], rq), contours[i])
       \o <<TextLine("")>> \o ContoursFrom(contours, i + 1, rq)

\* GCodeGenerator._add_contours
add_contours(contours, rq) ==
  add_section_header("; contours")
  \o ContoursFrom(IF rq.config.optimize_order /\ Len(contours) > 1
                  THEN optimize(contours) ELSE contours, 1, rq)

\* for i, line in enumerate(lines): lines of fewer than two points are skipped.
RECURSIVE LinesFrom(_, _, _)
LinesFrom(lines, i, rq) ==
  IF i > Len(lines) THEN <<>>
  ELSE IF Len(lines[i]) < 2 THEN LinesFrom(lines, i + 1, rq)
  ELSE <<TextLine("; line")>>
       \o OfStroke(process_hatching_line(lines[i], rq), lines[i])
       \o <<TextLine("")>> \o LinesFrom(lines, i + 1, rq)

\* GCodeGenerator._add_hatching
add_hatching(lines, rq) ==
  add_section_header("; hatching")
  \o LinesFrom(IF rq.config.optimize_order /\ Len(lines) > 1
               THEN optimize(lines) ELSE lines, 1, rq)

\* GCodeGenerator._add_header
add_header(rq) ==
  << TextLine(""), TextLine("G21"), TextLine("G90"), TextLine("G94"),
     add_movement(0, 0, <<SafeZ(rq)>>, rq.config.rapid_feed_rate, "lift",
                  "none"),
     add_movement(0, 0, NoZ, 0, "home", "none"),
     TextLine("") >>

\* A trailer that ends the program before it returns to the origin.
add_footer_after_end(rq) ==
  add_section_header("; end")
  \o << TextLine("M5"), TextLine("M30"),
        add_movement(0, 0, NoZ, rq.config.rapid_feed_rate, "origin", "none"),
        add_movement(0, 0, <<SafeZ(rq) + 10000>>,
                     rq.config.rapid_feed_rate \div 2, "final_lift", "none") >>

\* GCodeGenerator._add_footer
add_footer(rq) ==
  add_section_header("; end")
  \o << add_movement(0, 0, NoZ, rq.config.rapid_feed_rate, "origin", "none"),
        add_movement(0, 0, <<SafeZ(rq) + 10000>>,
                     rq.config.rapid_feed_rate \div 2, "final_lift", "none"),
        TextLine("M5"), TextLine("M30") >>

\* A generate that adds both sections whatever the flags and the lists are.
generate_both(rq0) ==
  LET rq == [rq0 EXCEPT !.config = validate_config(@)] IN
  add_header(rq) \o add_contours(rq.contours, rq)
  \o add_hatching(rq.hatching_lines, rq) \o add_footer(rq)

\* GCodeGenerator(config).generate(hatching_lines, contours, image_width,
\* image_height): the lines of the document.
generate(rq0) ==
  LET rq == [rq0 EXCEPT !.config = validate_config(@)] IN
  add_header(rq)
  \o (IF rq.config.draw_contours /\ rq.contours # <<>>
      THEN add_contours(rq.contours, rq) ELSE <<>>)
  \o (IF rq.config.draw_hatching /\ rq.hatching_lines # <<>>
      THEN add_hatching(rq.hatching_lines, rq) ELSE <<>>)
  \o add_footer(rq)

\* The contours of the inputs, in pixels of an 8 x 8 image: a square; a
\* triangle of neighbouring pixels; a contour with two neighbouring points on
\* its way whose last point lies next to its first; a single pixel.
KSquare == << <<0, 0>>, <<8, 0>>, <<8, 8>>, <<0, 8>> >>
KTiny == << <<4, 4>>, <<5, 4>>, <<5, 5>> >>
KNear == << <<0, 0>>, <<8, 0>>, <<8, 1>>, <<8, 8>>, <<1, 1>> >>
KDot == << <<2, 2>> >>

\* The hatching lines of the inputs: a diagonal; two neighbouring pixels;
\* four points in a row, the middle ones neighbours; a single pixel.
HDiag == << <<0, 0>>, <<8, 8>> >>
HShort == << <<2, 2>>, <<3, 2>> >>
HRow == << <<0, 8>>, <<4, 8>>, <<5, 8>>, <<8, 8>> >>
HDot == << <<1, 1>> >>

ContourLists ==
  UNION {[1..n -> {KSquare, KTiny, KNear, KDot}] : n \in 0..MaxGenStrokes}
HatchingLists ==
  UNION {[1..n -> {HDiag, HShort, HRow, HDot}] : n \in 0..MaxGenStrokes}

\* The options and image sizes of the inputs.  Fine: 0.125 mm per pixel, a pen
\* height below its range; Coarse: 1 mm per pixel and an image of the size of
\* the work area (no offset), an odd feed rate; Tight: an image larger than
\* the work area, a work area of 50.006 mm, a pen depth and a feed rate outside
\* their ranges.
Setups ==
  { [image |-> 8, scale_factor |-> 125, pen_up_z |-> 500,
     pen_down_z |-> -1125, hatch_depth |-> -500, feed_rate |-> 1500,
     rapid_feed_rate |-> 3000, work_area |-> 50000],
    [image |-> 50, scale_factor |-> 1000, pen_up_z |-> 8000,
     pen_down_z |-> -1000, hatch_depth |-> -500, feed_rate |-> 1501,
     rapid_feed_rate |-> 3000, work_area |-> 50000],
    [image |-> 60, scale_factor |-> 1000, pen_up_z |-> 45000,
     pen_down_z |-> -20000, hatch_depth |-> -2000, feed_rate |-> 9000,
     rapid_feed_rate |-> 3000, work_area |-> 50006] }

\* The generate calls: generate_sketch_gcode(hatching_lines, contours,
\* image_width, image_height, config, optimize_order).
GenerateCalls ==
  { [made |-> TRUE, hatching_lines |-> h, contours |-> k,
     image_width |-> su.image, image_height |-> su.image,
     config |-> [scale_factor |-> su.scale_factor, pen_up_z |-> su.pen_up_z,
                 pen_down_z |-> su.pen_down_z, hatch_depth |-> su.hatch_depth,
                 feed_rate |-> su.feed_rate,
                 rapid_feed_rate |-> su.rapid_feed_rate,
                 work_area_x |-> su.work_area, work_area_y |-> su.work_area,
                 draw_contours |-> dc, draw_hatching |-> dh,
                 optimize_order |-> oo]] :
      h \in HatchingLists, k \in ContourLists, su \in Setups,
      dc \in BOOLEAN, dh \in BOOLEAN, oo \in BOOLEAN }

InitGen ==
  /\ InitTransport
  /\ InitReceive
  /\ items = NoCall
  /\ optimized = NoCall
  /\ request \in GenerateCalls
  /\ gcode = NoCall
  /\ InitUtils

\* generate_sketch_gcode
Generate ==
  /\ ~gcode.made
  /\ gcode' = [made |-> TRUE, doc |-> generate(request)]
  /\ UNCHANGED <<mgrvars, serialvars, btvars, envvars, th, mainvars, wire,
                 recvvars, optvars, request, utilvars, emitvars>>

NextGen == Generate

SpecGen == InitGen /\ [][NextGen]_vars

\* ------------------------------------------------- transform_coordinates
\* src/utils.py: calls of transform_coordinates on its own.  Points and image
\* sizes are whole numbers, scale_factor and the work area are counted in
\* thousandths; the image sizes and work areas are even, so that the offsets
\* (work_area - image * scale_factor) / 2 are whole thousandths.  The points
\* lie inside and outside the image, the image is smaller and larger than the
\* work area, the scale is negative, zero, fine, and 1.
MapCoords == {-3, 0, 3, 10, 25, 50, 64}
MapImages == {0, 8, 50, 60}
MapScales == {-1000, 0, 125, 1000}
MapAreas == {0, 50000, 50006}

MapCalls ==
  { [made |-> TRUE, x |-> x, y |-> y, image_width |-> iw, image_height |-> ih,
     scale_factor |-> sf, work_area_x |-> wa, work_area_y |-> wa] :
      x \in MapCoords, y \in MapCoords, iw \in MapImages, ih \in MapImages,
      sf \in MapScales, wa \in MapAreas }

InitMap ==
  /\ InitTransport
  /\ InitReceive
  /\ InitPipeline
  /\ mapcall \in MapCalls
  /\ mapped = NoCall
  /\ rawconfig = NoCall
  /\ stored = NoCall
  /\ InitEmitIdle

\* transform_coordinates(x, y, ...) with the arguments of the call.
Transform ==
  /\ ~mapped.made
  /\ mapped' = [made |-> TRUE, again |-> FALSE,
                point |-> transform_coordinates(
                            mapcall.x, mapcall.y, mapcall.image_width,
                            mapcall.image_height, mapcall.scale_factor,
                            mapcall.work_area_x, mapcall.work_area_y),
                twice |-> <<0, 0>>]
  /\ UNCHANGED <<mgrvars, serialvars, btvars, envvars, th, mainvars, wire,
                 recvvars, optvars, genvars, mapcall, rawconfig, stored,
                 emitvars>>

\* transform_coordinates applied to the point a call returned, with the other
\* arguments of that call.  The point is handed over in mm: this is for the
\* calls whose result is a whole number of mm.
TransformAgain ==
  /\ mapped.made
  /\ ~mapped.again
  /\ mapped.point[1] % 1000 = 0
  /\ mapped.point[2] % 1000 = 0
  /\ mapped' = [mapped EXCEPT
                  !.again = TRUE,
                  !.twice = transform_coordinates(
                              mapped.point[1] \div 1000,
                              mapped.point[2] \div 1000, mapcall.image_width,
                              mapcall.image_height, mapcall.scale_factor,
                              mapcall.work_area_x, mapcall.work_area_y)]
  /\ UNCHANGED <<mgrvars, serialvars, btvars, envvars, th, mainvars, wire,
                 recvvars, optvars, genvars, mapcall, rawconfig, stored,
                 emitvars>>

NextMap == Transform \/ TransformAgain

SpecMap == InitMap /\ [][NextMap]_vars

\* ------------------------------------------------------- config validation
\* GCodeGenerator(config) on configs whose values are any Python values.  A
\* value is a record: kind "number" with the number v (thousandths, feed rates
\* as they are); "inf" and "-inf"; "nan"; "huge", an int too large for a
\* float; "text", a value float() does not take (a string that is no number,
\* None, a list).
Number(v) == [kind |-> "number", v |-> v]
Other(kind) == [kind |-> kind, v |-> 0]

\* numeric_params: the admissible range of every numeric option.
numeric_params ==
  [scale_factor |-> <<10, 1000>>, pen_up_z |-> <<1000, 50000>>,
   pen_down_z |-> <<-10000, -100>>, hatch_depth |-> <<-10000, -100>>,
   feed_rate |-> <<100, 5000>>, rapid_feed_rate |-> <<500, 10000>>,
   work_area_x |-> <<50000, 1000000>>, work_area_y |-> <<50000, 1000000>>]
NumericFields == DOMAIN numeric_params

\* num = float(value) raises: ValueError or TypeError for "text" (caught by
\* validate_numeric_input), OverflowError for "huge" (not caught).
FloatRaises(value) ==
  IF value.kind = "text" THEN "ValueError"
  ELSE IF value.kind = "huge" THEN "OverflowError"
  ELSE "none"

\* validate_numeric_input(value, min_val, max_val, default) on any value, when
\* it returns: the default when float(value) raised ValueError or TypeError;
\* nan as it is (both comparisons are false); the nearer end of the range for
\* an infinity; the clamped number otherwise.
validate_numeric_input_any(value, min_val, max_val, default) ==
  IF FloatRaises(value) # "none" THEN Number(default)
  ELSE IF value.kind = "nan" THEN value
  ELSE IF value.kind = "-inf" THEN Number(min_val)
  ELSE IF value.kind = "inf" THEN Number(max_val)
  ELSE Number(validate_numeric_input(value.v, min_val, max_val))

\* GCodeGenerator.__init__ / _validate_config on any values: the exception
\* that leaves it, if any, and the options stored otherwise.
Construct(config) ==
  IF \E f \in NumericFields : FloatRaises(config[f]) = "OverflowError"
  THEN [made |-> TRUE, raised |-> TRUE,
        config |-> [f \in NumericFields |-> Other("nan")]]
  ELSE [made |-> TRUE, raised |-> FALSE,
        config |-> [f \in NumericFields |->
                      validate_numeric_input_any(
                        config[f], numeric_params[f][1], numeric_params[f][2],
                        0)]]

\* The values a field is given: numbers below its range, at its ends, inside
\* and above it, and the values that are no numbers.
Middle(f) == (numeric_params[f][1] + numeric_params[f][2]) \div 2
ValuesOf(f) ==
  {Number(numeric_params[f][1] - 1), Number(numeric_params[f][1]),
   Number(Middle(f)), Number(numeric_params[f][2]),
   Number(numeric_params[f][2] + 1), Other("inf"), Other("-inf"),
   Other("nan"), Other("huge"), Other("text")}

\* The configs of the calls: every field holds the middle of its range, but
\* for two fields (or one, or none), which hold any of their values.
WithValues(f1, v1, f2, v2) ==
  [f \in NumericFields |->
     IF f = f1 THEN v1 ELSE IF f = f2 THEN v2 ELSE Number(Middle(f))]
RawConfigs ==
  UNION {UNION {{WithValues(f1, v1, f2, v2) :
                   v1 \in ValuesOf(f1), v2 \in ValuesOf(f2)} :
                f2 \in NumericFields} :
         f1 \in NumericFields}

InitVal ==
  /\ InitTransport
  /\ InitReceive
  /\ InitPipeline
  /\ mapcall = NoCall
  /\ mapped = NoCall
  /\ rawconfig \in {[made |-> TRUE, config |-> c] : c \in RawConfigs}
  /\ stored = NoCall
  /\ InitEmitIdle

\* generator = GCodeGenerator(config)
ConstructGenerator ==
  /\ ~stored.made
  /\ stored' = Construct(rawconfig.config)
  /\ UNCHANGED <<mgrvars, serialvars, btvars, envvars, th, mainvars, wire,
                 recvvars, optvars, genvars, mapcall, mapped, rawconfig,
                 emitvars>>

NextVal == ConstructGenerator

SpecVal == InitVal /\ [][NextVal]_vars

\* ------------------------------------------- _greedy_sort on float points
\* The coordinates of the points are Python floats: numbers, or NaN.
NaN == Other("nan")
SortPositions ==
  { <<Number(0), Number(0)>>, <<Number(4), Number(0)>>,
    <<Number(9), Number(9)>>, <<NaN, NaN>> }
SortPoints == {<<start, end>> : start \in SortPositions, end \in SortPositions}
SortLists == UNION {[1..n -> SortPoints] : n \in 0..MaxSortPoints}

\* math.hypot(last_end[0] - start[0], last_end[1] - start[1]), squared: NaN
\* when one of the coordinates is NaN.
hypot2(last_end, start) ==
  IF \E c \in {last_end[1], last_end[2], start[1], start[2]} : c.kind = "nan"
  THEN NaN
  ELSE Number(Dist2(<<last_end[1].v, last_end[2].v>>,
                    <<start[1].v, start[2].v>>))

\* dist < min_dist, min_dist a squared distance or float('inf'): False when
\* dist is NaN.
FloatLess(dist, min_dist) ==
  dist.kind = "number" /\ (min_dist = Inf \/ dist.v < min_dist)

\* for i in range(n): if not visited[i]: ... if dist < min_dist: ...
\* The scan from index i on; the result is next_idx (0 stands for -1).
RECURSIVE NearestFromAny(_, _, _, _, _, _)
NearestFromAny(points, visited, last_end, i, min_dist, next_idx) ==
  IF i > Len(points) THEN next_idx
  ELSE IF i \notin visited /\ FloatLess(hypot2(last_end, points[i][1]), min_dist)
  THEN NearestFromAny(points, visited, last_end, i + 1,
                      hypot2(last_end, points[i][1]).v, i)
  ELSE NearestFromAny(points, visited, last_end, i + 1, min_dist, next_idx)

\* else: for i in range(n): if not visited[i]: order.append(i); break
first_unvisited(points, visited) ==
  CHOOSE i \in 1..Len(points) :
    /\ i \notin visited
    /\ \A j \in 1..Len(points) : j \notin visited => i <= j

\* for _ in range(1, n): one index is appended in every pass, the nearest
\* one or, when the scan finds none, the first unvisited one.
RECURSIVE GreedyLoopAny(_, _)
GreedyLoopAny(points, order) ==
  IF Len(order) >= Len(points) THEN order
  ELSE LET visited == {order[k] : k \in 1..Len(order)}
           last_end == points[order[Len(order)]][2]
           next_idx == NearestFromAny(points, visited, last_end, 1, Inf, 0)
       IN GreedyLoopAny(points,
                        Append(order, IF next_idx # 0 THEN next_idx
                                      ELSE first_unvisited(points, visited)))

\* OptimizationStrategy._greedy_sort on float points: the indices (from 1) in
\* the order of visit.
greedy_sort_any(points) ==
  IF Len(points) <= 1 THEN [k \in 1..Len(points) |-> k]
  ELSE GreedyLoopAny(points, <<1>>)

\* A _greedy_sort call on a list of (start, end) pairs.
SortCalls == {[made |-> TRUE, kind |-> "points", strokes |-> l] : l \in SortLists}

InitSort ==
  /\ InitTransport
  /\ InitReceive
  /\ items \in SortCalls
  /\ optimized = NoCall
  /\ request = NoCall
  /\ gcode = NoCall
  /\ InitUtils

\* order = self._greedy_sort(points)
GreedySort ==
  /\ items.kind = "points"
  /\ ~optimized.made
  /\ optimized' = [made |-> TRUE, order |-> greedy_sort_any(items.strokes),
                   strokes |-> items.strokes]
  /\ UNCHANGED <<mgrvars, serialvars, btvars, envvars, th, mainvars, wire,
                 recvvars, items, genvars, utilvars, emitvars>>

NextSort == GreedySort

SpecSort == InitSort /\ [][NextSort]_vars

\* ------------------------------------------------- the emitter's state
\* The sessions: the arguments of GenerateCalls for the 50 x 50 image, the
\* caller's config with an optimize_order entry of its own, and the
\* optimize_order argument of generate_sketch_gcode.
EmitCalls ==
  { [made |-> TRUE, hatching_lines |-> rq.hatching_lines,
     contours |-> rq.contours, image_width |-> rq.image_width,
     image_height |-> rq.image_height, config |-> rq.config,
     optimize_order |-> oo] :
      rq \in {g \in GenerateCalls : g.image_width = 50}, oo \in BOOLEAN }

InitEmit ==
  /\ InitTransport
  /\ InitReceive
  /\ items = NoCall
  /\ optimized = NoCall
  /\ request \in EmitCalls
  /\ gcode = NoCall
  /\ mapcall = NoCall
  /\ mapped = NoCall
  /\ rawconfig = NoCall
  /\ stored = NoCall
  /\ builder = NoCall
  /\ returned = <<>>
  /\ configs = [caller |-> request.config, callee |-> NoCall]

\* generator = GCodeGenerator(config): self.builder = GCodeBuilder(), with
\* no lines.
GeneratorInit ==
  /\ ~builder.made
  /\ returned = <<>>
  /\ builder' = [made |-> TRUE, lines |-> <<>>]
  /\ UNCHANGED <<mgrvars, serialvars, btvars, envvars, th, mainvars, wire,
                 recvvars, optvars, genvars, utilvars, returned, configs>>

\* generator.generate(hatching_lines, contours, image_width, image_height):
\* the lines of the document are appended to self.builder.lines, and the text
\* returned, self.builder.get_gcode(), is made of all the lines of the
\* builder.
GeneratorGenerate ==
  /\ builder.made
  /\ Len(returned) < MaxGenerateCalls
  /\ builder' = [builder EXCEPT !.lines = @ \o generate(request)]
  /\ returned' = Append(returned, builder'.lines)
  /\ UNCHANGED <<mgrvars, serialvars, btvars, envvars, th, mainvars, wire,
                 recvvars, optvars, genvars, utilvars, configs>>

\* generate_sketch_gcode(hatching_lines, contours, image_width,
\* image_height, config, optimize_order): config = config.copy() binds the
\* name to a new dict, which gets the optimize_order entry; the generator and
\* its builder are new objects of the call.
SketchGcode ==
  /\ ~builder.made
  /\ returned = <<>>
  /\ configs' = [configs EXCEPT
                   !.callee = [configs.caller EXCEPT
                                 !.optimize_order = request.optimize_order]]
  /\ returned' = <<generate([request EXCEPT !.config = configs'.callee])>>
  /\ UNCHANGED <<mgrvars, serialvars, btvars, envvars, th, mainvars, wire,
                 recvvars, optvars, genvars, utilvars, builder>>

NextEmit == GeneratorInit \/ GeneratorGenerate \/ SketchGcode

SpecEmit == InitEmit /\ [][NextEmit]_vars

\* ------------------------------------------------------- text emitter
\* The characters of the texts: two letters with a glyph, a character without
\* one, the space and the newline.
TextChars == {"A", "1", "~", " ", "\n"}
Texts0 == UNION {[1..n -> TextChars] : n \in 0..MaxTextLen}

\* CYRILLIC_WIDTHS[char], in font units; a character without an entry has the
\* base width of 16.
CharWidth(char) == IF char = "A" THEN 16 ELSE IF char = "1" THEN 8 ELSE 16

\* self.font_dict[char]: the points of the glyph, in font units (the table
\* HERSHEY_CYRILLIC_CALLIGRAPHIC); no entry: no points.
GlyphPoints(char) ==
  IF char = "A" THEN << <<0, 0>>, <<8, 21>>, <<16, 0>> >>
  ELSE IF char = "1" THEN << <<4, 0>>, <<4, 21>> >>
  ELSE <<>>

\* CyrillicHersheyFont.get_character_path: one path of the glyph's points when
\* the glyph has more than one point.
get_character_path(char) ==
  IF Len(GlyphPoints(char)) > 1 THEN <<GlyphPoints(char)>> ELSE <<>>

\* Lengths of the text emitter are thousandths of a millimetre as they come
\* out of _build_gcode, that is after the multiplication by base_width = 16 *
\* scale (X) or base_height = 30 * scale (Y).  sq is (10 * scale) squared:
\* a glyph coordinate gx gives 16 * scale * scale * gx mm = 160 * sq * gx,
\* a character of width w advances by w * scale * spacing (spacing 1.2), which
\* gives 192 * sq * w, a space advances by 8 * scale, which gives 1280 * sq,
\* and a new line lowers Y by base_height * line_height (line_height 1.5),
\* which gives 13500 * sq.
GlyphX(gx, sq) == 160 * sq * gx
GlyphY(gy, sq) == 300 * sq * gy
Advance(char, sq) == IF char = " " THEN 1280 * sq ELSE 192 * sq * CharWidth(char)
LineDrop(sq) == 13500 * sq

\* TextLayoutEngine.layout_text without max_width: the paths of the glyphs,
\* each shifted by the offset of its character; a space and a character move
\* the offset to the right, a newline puts it back to start_x and lowers it
\* by one line.
RECURSIVE layout_text(_, _, _, _, _, _)
layout_text(text, i, x_offset, y_offset, start_x, sq) ==
  IF i > Len(text) THEN <<>>
  ELSE IF text[i] = "\n"
  THEN layout_text(text, i + 1, start_x, y_offset - LineDrop(sq), start_x, sq)
  ELSE IF text[i] = " "
  THEN layout_text(text, i + 1, x_offset + Advance(" ", sq), y_offset, start_x, sq)
  ELSE [k \in 1..Len(get_character_path(text[i])) |->
          [j \in 1..Len(get_character_path(text[i])[k]) |->
             << GlyphX(get_character_path(text[i])[k][j][1], sq) + x_offset,
                GlyphY(get_character_path(text[i])[k][j][2], sq) + y_offset >>]]
       \o layout_text(text, i + 1, x_offset + Advance(text[i], sq), y_offset,
                      start_x, sq)

\* TextLayoutEngine._calculate_line_width, from character i to the end of the
\* line, and calculate_text_size: the width of the widest line.
RECURSIVE LineWidthFrom(_, _, _)
LineWidthFrom(text, i, sq) ==
  IF i > Len(text) \/ text[i] = "\n" THEN 0
  ELSE Advance(text[i], sq) + LineWidthFrom(text, i + 1, sq)
LineStarts(text) == {1} \cup {i + 1 : i \in {j \in 1..Len(text) : text[j] = "\n"}}
text_width(text, sq) ==
  CHOOSE w \in {LineWidthFrom(text, i, sq) : i \in LineStarts(text)} :
    \A i \in LineStarts(text) : LineWidthFrom(text, i, sq) <= w

\* TextGCodeGenerator._adjust_position_for_alignment (the widths of the
\* inputs are even numbers of thousandths).
adjust_position_for_alignment(text, start_x, align, sq) ==
  IF align = "left" THEN start_x
  ELSE IF align = "center" THEN start_x - text_width(text, sq) \div 2
  ELSE start_x - text_width(text, sq)

\* A line of the text document: f"G0 X{x_mm:.2f} Y{y_mm:.2f} F...".
text_movement(op, x, y, role) ==
  [op |-> op, x |-> Format2(x), y |-> Format2(y), z |-> NoZ, f |-> 0,
   role |-> role, cat |-> "text", at |-> <<x, y>>, pt |-> 0, stroke |-> <<>>]

\* The lines of one path in _build_gcode: the positioning move to its first
\* point, the pen down, and a drawing move to every later point.
PathLines(path) ==
  << text_movement("G0", path[1][1], path[1][2], "to_start"),
     TextLine("G1 Z") >>
  \o [j \in 1..(Len(path) - 1) |->
        text_movement("G1", path[j + 1][1], path[j + 1][2], "draw")]

\* for path in text_paths: the pen is lifted before every path but the first.
RECURSIVE PathsFrom(_, _)
PathsFrom(paths, k) ==
  IF k > Len(paths) THEN <<>>
  ELSE (IF k > 1 THEN <<TextLine("G0 Z")>> ELSE <<>>)
       \o PathLines(paths[k]) \o PathsFrom(paths, k + 1)

\* TextGCodeGenerator._build_gcode
build_gcode(text_paths) ==
  << TextLine("; text"), TextLine("; text"), TextLine("; text"),
     TextLine("; text"), TextLine(""), TextLine("G21"), TextLine("G90"),
     TextLine("G0 Z") >>
  \o PathsFrom(text_paths, 1)
  \o (IF text_paths # <<>> THEN <<TextLine("G0 Z")>> ELSE <<>>)

\* TextGCodeGenerator.generate
text_generate(text, start_x, start_y, align, sq) ==
  build_gcode(layout_text(text, 1,
                          adjust_position_for_alignment(text, start_x, align, sq),
                          start_y,
                          adjust_position_for_alignment(text, start_x, align, sq),
                          sq))

\* The calls text_to_gcode_cyrillic(text, config, start_x, start_y, align):
\* a work area of 100 x 100 mm, the start position on its border or in its
\* middle, font_scale 0.1 (the default) or 0.4.
TextStarts == {0, 50000, 100000}
TextCalls ==
  { [made |-> TRUE, text |-> t, start_x |-> sx, start_y |-> sy, align |-> al,
     sq |-> q, work_area_x |-> 100000, work_area_y |-> 100000] :
      t \in Texts0, sx \in TextStarts, sy \in TextStarts,
      al \in {"left", "center", "right"}, q \in {1, 16} }

InitText ==
  /\ InitTransport
  /\ InitReceive
  /\ items = NoCall
  /\ optimized = NoCall
  /\ request \in TextCalls
  /\ gcode = NoCall
  /\ InitUtils

\* text_to_gcode_cyrillic
TextToGcode ==
  /\ ~gcode.made
  /\ gcode' = [made |-> TRUE,
               doc |-> text_generate(request.text, request.start_x,
                                     request.start_y, request.align, request.sq)]
  /\ UNCHANGED <<mgrvars, serialvars, btvars, envvars, th, mainvars, wire,
                 recvvars, optvars, request, utilvars, emitvars>>

NextText == TextToGcode

SpecText == InitText /\ [][NextText]_vars

\* ------------------------------------- connect and disconnect, any kind
\* The connection kinds a caller can name: the two transports and one that
\* the manager does not know.
ConnectionKinds == ConnectionTypes \cup {"usb"}

\* ConnectionManager.connect with a kind that is not supported, after the
\* disconnect of a live connection and self.connection_type =
\* connection_type: neither branch is taken, the call returns (False,
\* "Неподдерживаемый тип подключения") and leaves self.is_connected as it is.
ManagerConnectRefuse ==
  /\ main.op = "open"
  /\ main.arg \notin ConnectionTypes
  /\ main' = MainIdle
  /\ UNCHANGED <<mgrvars, serialvars, btvars, envvars, th, last_estop, wire>>
  /\ UNCHANGED sidevars

\* ConnectionManager.connect while self.is_connected is true and
\* connection_type names no transport: self.disconnect() returns (False,
\* "Нет активного подключения") and changes nothing.
ManagerConnectAfterUnsupported(type) ==
  /\ main.op = "idle"
  /\ mgr_is_connected
  /\ connection_type \notin ConnectionTypes
  /\ ops + 1 <= MaxOps
  /\ ops' = ops + 1
  /\ main' = [MainIdle EXCEPT !.op = "dispatch", !.arg = type]
  /\ UNCHANGED <<mgrvars, serialvars, btvars, link_ok, th, last_estop, wire>>
  /\ UNCHANGED sidevars

\* ConnectionManager.disconnect while connection_type names no transport:
\* (False, "Нет активного подключения").
ManagerDisconnectNone ==
  /\ main.op = "idle"
  /\ connection_type \notin ConnectionTypes
  /\ ops + 1 <= MaxOps
  /\ ops' = ops + 1
  /\ main' = MainIdle
  /\ UNCHANGED <<mgrvars, serialvars, btvars, link_ok, th, last_estop, wire>>
  /\ UNCHANGED sidevars

\* The connect and disconnect calls of the main thread, with every kind.
ConnectCalls ==
  \/ \E type \in ConnectionKinds :
       /\ mgr_is_connected => connection_type \in ConnectionTypes
       /\ ManagerConnect(type)
  \/ \E type \in ConnectionKinds : ManagerConnectAfterUnsupported(type)
  \/ ManagerConnectDispatch
  \/ ManagerConnectRefuse
  \/ SerialConnectClear
  \/ \E ok \in BOOLEAN : SerialConnectOpen(ok)
  \/ \E ok \in BOOLEAN, uuid \in {"None", "uuid"} : BtConnectOpen(ok, uuid)

DisconnectCalls ==
  \/ connection_type \in ConnectionTypes /\ ManagerDisconnect
  \/ ManagerDisconnectNone
  \/ SerialDisconnectFinish
  \/ BtDisconnectFinish

NextConn == ConnectCalls \/ DisconnectCalls

SpecConn == Init /\ [][NextConn]_vars

\* ------------------------------------------------------------ properties
IsPrefix(s, t) == Len(s) <= Len(t) /\ SubSeq(t, 1, Len(s)) = s

\* s is t with some elements left out.
RECURSIVE IsSubseq(_, _)
IsSubseq(s, t) ==
  IF s = <<>> THEN TRUE
  ELSE IF t = <<>> THEN FALSE
  ELSE IF Head(s) = Head(t) THEN IsSubseq(Tail(s), Tail(t))
  ELSE IsSubseq(s, Tail(t))

\* The bytes of the payload of a job: its lines stripped, without the blank
\* and comment lines, each with its newline.
RECURSIVE Payload(_)
Payload(lines) ==
  IF lines = <<>> THEN <<>>
  ELSE IF IsSkipped(strip(Head(lines))) THEN Payload(Tail(lines))
  ELSE <<WithNewline(strip(Head(lines)))>> \o Payload(Tail(lines))

\* The bytes of a sequence of wire entries or of attempts.
Bytes(entries) == [k \in 1..Len(entries) |-> entries[k][Len(entries[k])]]

\* What the device received from request c in a phase, and the _send_line
\* calls c made in a phase.
OnWire(c, phase) == SelectSeq(wire, LAMBDA e : e[1] = c /\ e[2] = phase)
Attempts(c, phase) == SelectSeq(th[c].attempts, LAMBDA a : a[1] = phase)

InitBytes == [k \in 1..Len(init_commands) |-> WithNewline(init_commands[k])]
EndBytes == [k \in 1..Len(end_commands) |-> WithNewline(end_commands[k])]
StopBytes(tr) ==
  IF tr = "serial"
  THEN [k \in 1..Len(serial_emergency_commands) |->
          SerialEstopBytes(serial_emergency_commands[k])]
  ELSE bt_emergency_commands

InitPcs == {"init_chk", "init_send", "init_write"}
PayloadPcs == {"p_chk", "p_send", "p_write"}
EndPcs == {"end_chk", "e_send", "e_write", "report"}

\* The drain loop of request c is running.
DrainLoopRunning(c) == InFlight(c) /\ th[c].pc # "enqueue"

\* C1: a send issued while the drain loop of an accepted send is running starts
\* no second drain loop: at no time do two drain loops run on one transport.
C1_OneSendInFlight ==
  \A c, d \in Calls :
    (c # d /\ DrainLoopRunning(c) /\ DrainLoopRunning(d))
      => th[c].kind # th[d].kind

\* C2: a second send leaves the first job unaffected: the payload loop of a
\* job iterates that job's own queued lines, and the lines the device receives
\* from two jobs are never interleaved (nothing of another job arrives between
\* two lines of one job).
C2_FirstJobUnaffected ==
  /\ \A c \in Calls :
       (th[c].kind = "serial" /\ th[c].pc \in PayloadPcs) => th[c].it = c
  /\ \A i, j, k \in 1..Len(wire) :
       (i < j /\ j < k /\ wire[i][1] # 0 /\ wire[i][1] = wire[k][1])
         => wire[j][1] \in {0, wire[i][1]}

\* C3: a job of N payload lines that emergency_stop cancels in its payload
\* loop, when fewer than N of them had been handed to the link, transmits no
\* trailing command and ends cancelled with a reported sent count below N: its
\* final message is marked as interrupted, or its call returns the cancelled
\* result.
C3_CancelledJob ==
  \A c \in Calls :
    (/\ th[c].cancelled
     /\ th[c].pcAtCancel \in PayloadPcs
     /\ th[c].triedAtCancel < Len(Payload(th[c].job)))
      => /\ OnWire(c, "end") = <<>>
         /\ th[c].pc = "done" =>
              IF th[c].report.made
              THEN /\ th[c].report.interrupted
                   /\ th[c].report.sent < Len(Payload(th[c].job))
              ELSE th[c].result = "cancelled"

\* C4: an emergency_stop that reaches its transport attempts every stop
\* command of the transport's list, in list order, and on a link that takes
\* writes all through the call the device receives every one of them.
C4_EveryStopCommand ==
  last_estop.entered =>
    /\ last_estop.attempted = Len(StopBytes(last_estop.tr))
    /\ IsSubseq(last_estop.written, StopBytes(last_estop.tr))
    /\ last_estop.healthy => last_estop.written = StopBytes(last_estop.tr)

\* C5: an emergency_stop on a connected transport returns ok exactly when the
\* link accepted at least one of its stop commands.
C5_OkIffAccepted ==
  last_estop.entered => (last_estop.ok <=> last_estop.success_count > 0)

\* C6: after emergency_stop has set the flag, at most one more payload line of
\* a running job reaches the device.
C6_AtMostOneMoreLine ==
  \A c \in Calls :
    th[c].cancelled => Len(PayloadOnWire(c)) <= th[c].sentAtCancel + 1

\* C7: the payload lines the device receives from a send job are lines of that
\* job's input, stripped, without the blank and comment lines, in their
\* original order and none of them twice (a line whose write failed is
\* missing).
C7_PayloadOfTheJob ==
  \A c \in Calls : IsSubseq(Bytes(PayloadOnWire(c)), Payload(th[c].job))

\* C8: a job that emergency_stop cancels before it has reached the end of its
\* queue transmits none of the trailing commands.
C8_NoTrailingWhenCancelled ==
  \A c \in Calls :
    (th[c].cancelled /\ th[c].pcAtCancel \notin EndPcs)
      => OnWire(c, "end") = <<>>

\* C9, as the specification states it: the init commands are not subject to
\* cancellation, so a job that emergency_stop cancels during its init phase
\* still attempts all three of them.
C9_InitNotCancellable ==
  \A c \in Calls :
    (th[c].cancelled /\ th[c].pcAtCancel \in InitPcs /\ th[c].pc = "done")
      => Len(Attempts(c, "init")) = Len(init_commands)

\* C9, amended: the init commands are attempted in list order, all three of
\* them before the job's first payload line, and an init command that is
\* refused or whose write fails neither ends the job nor counts in its error
\* counter; a job that ends before its third init command (the cancellation
\* flag was found set) attempts no payload line and no trailing command and
\* makes no final message.
C9_InitUnlessCancelled ==
  \A c \in Calls :
    /\ IsPrefix(Bytes(Attempts(c, "init")), InitBytes)
    /\ \A k, l \in 1..Len(th[c].attempts) :
         (k < l /\ th[c].attempts[l][1] = "init") => th[c].attempts[k][1] = "init"
    /\ (th[c].pc \in {"acquire"} \cup PayloadPcs \cup EndPcs \/ th[c].report.made)
         => Len(Attempts(c, "init")) = Len(init_commands)
    /\ (th[c].pc = "done" /\ Len(Attempts(c, "init")) < Len(init_commands))
         => /\ Attempts(c, "payload") = <<>>
            /\ Attempts(c, "end") = <<>>
            /\ ~th[c].report.made
    /\ th[c].errors <= Len(Attempts(c, "payload"))

\* A job cancelled between two init commands has ended without the third.
C9_Witness ==
  \E c \in Calls :
    /\ th[c].cancelled
    /\ th[c].pcAtCancel \in InitPcs
    /\ th[c].pc = "done"
    /\ Len(Attempts(c, "init")) \in 1..(Len(init_commands) - 1)

\* C10: a payload line that is refused or whose write fails adds one to the
\* job's error counter and does not stop the stream: unless the flag was set
\* or the transport disconnected meanwhile, the drain loop attempts every
\* payload line of its queue, then both trailing commands, and its final
\* message counts every line and is not marked as interrupted.
C10_BestEffort ==
  \A c \in Calls :
    /\ th[c].errors =
         Len(Attempts(c, "payload")) - Len(PayloadOnWire(c))
           - (IF th[c].pc = "p_write" THEN 1 ELSE 0)
    /\ ((th[c].pc \in EndPcs \/ th[c].report.made) /\ ~th[c].stopped)
         => Bytes(Attempts(c, "payload")) = Payload(th[c].drained)
    /\ (th[c].report.made /\ ~th[c].stopped)
         => /\ Bytes(Attempts(c, "end")) = EndBytes
            /\ th[c].report.sent = Len(Payload(th[c].drained))
            /\ th[c].report.errors = th[c].errors
            /\ ~th[c].report.interrupted

\* A job whose first payload write failed has written its second payload line
\* and both trailing commands.
C10_Witness ==
  \E c \in Calls :
    /\ th[c].report.made
    /\ ~th[c].stopped
    /\ th[c].report.errors = 1
    /\ Len(Payload(th[c].drained)) = 2
    /\ Bytes(PayloadOnWire(c)) = <<Payload(th[c].drained)[2]>>
    /\ Bytes(OnWire(c, "end")) = EndBytes

\* C11: a hard link failure in the middle of a stream (writes raise because the
\* link is down, and it stays down) aborts the rest of the job: after the first
\* write that raised, the request attempts no further payload or trailing write,
\* and it is not reported as a success.
C11_LinkLossAborts ==
  \A c \in Calls :
    /\ th[c].raised <= 1
    /\ th[c].raised >= 1 => th[c].result # "ok"

\* C12: an accepted send returns to its caller at once: the call never waits
\* for the lock while a drain loop holds it, and by the time the drain loop of a
\* request has handed a line to _send_line the call has returned its result.
C12_SendReturnsAtOnce ==
  \A c \in Calls :
    /\ th[c].pc = "enqueue" => send_lock = 0
    /\ (InFlight(c) /\ th[c].attempts # <<>>) => th[c].result # "none"

\* C12, the wired half alone: a send never waits for the lock a drain loop
\* holds.
C12_WiredNeverWaits ==
  \A c \in Calls : th[c].pc = "enqueue" => send_lock = 0

\* C13: after any sequence of ConnectionManager connect and disconnect calls
\* at most one transport holds a live connection: the wired and the wireless
\* transport are never both connected, and whenever a connect is about to open
\* its link no transport is connected any more.
C13_AtMostOneLive ==
  /\ ~(s_is_connected /\ b_is_connected)
  /\ ~(serial_connection = "open" /\ client = "connected")
  /\ main.op \in {"open", "opening"} => ~s_is_connected /\ ~b_is_connected

\* C13's case: the second manager call was a connect to the wireless transport
\* issued while the wired connection was live; the wired transport has been
\* disconnected and the wireless one is connected.
C13_Witness ==
  /\ ops = 2
  /\ main.op = "idle"
  /\ connection_type = "bluetooth"
  /\ b_is_connected
  /\ s_stop_receive
  /\ ~s_is_connected

\* C14: disconnect is idempotent.  Every disconnect returns ok and leaves the
\* transport not connected, its link handle released and its send queue empty,
\* the receive loop told to stop and every send loop still running told to
\* stop; a second disconnect in a row leaves what the first one left.
C14_DisconnectIdempotent ==
  main.disc # "none" =>
    /\ main.left.ok
    /\ ~main.left.is_connected
    /\ main.left.handle = "None"
    /\ main.left.queue = <<>>
    /\ main.left.stop_receive
    /\ main.left.running => main.left.stop_send
    /\ main.same

\* The last n elements of a sequence.
LastOf(s, n) == IF Len(s) <= n THEN s ELSE SubSeq(s, Len(s) - n + 1, Len(s))

StartOf(st) == st[1]
EndOf(st) == st[Len(st)]

\* C16: the list an optimize call returns is a permutation of its input: it
\* has the length of the input and is made of every input stroke exactly once.
C16_Permutation ==
  optimized.made =>
    /\ Len(optimized.strokes) = Len(items.strokes)
    /\ Len(optimized.order) = Len(items.strokes)
    /\ \A i \in 1..Len(items.strokes) :
         Cardinality({k \in 1..Len(optimized.order) : optimized.order[k] = i}) = 1

\* C17: the returned list starts with the first input stroke, and every later
\* stroke is one not yet visited whose start is nearest to the end of the
\* stroke before it, the one with the lowest index among the nearest.
C17_Greedy ==
  (optimized.made /\ Len(items.strokes) >= 1) =>
    LET order == optimized.order
        st == items.strokes
        Unvisited(k) == {i \in 1..Len(st) : \A m \in 1..(k - 1) : order[m] # i}
        D(k, i) == Dist2(EndOf(st[order[k - 1]]), StartOf(st[i]))
    IN /\ Len(order) >= 1
       /\ order[1] = 1
       /\ \A k \in 2..Len(order) :
            /\ order[k] \in Unvisited(k)
            /\ \A i \in Unvisited(k) :
                 \/ D(k, order[k]) < D(k, i)
                 \/ (D(k, order[k]) = D(k, i) /\ order[k] <= i)

\* C17 on the lists whose strokes all have two points or more.
C17_GreedyOnLongStrokes ==
  (\A k \in 1..Len(items.strokes) : Len(items.strokes[k]) >= 2) => C17_Greedy

\* C16 on the lists whose strokes all have two points or more.
C16_PermutationOfLongStrokes ==
  (\A k \in 1..Len(items.strokes) : Len(items.strokes[k]) >= 2) =>
    C16_Permutation

\* The document of the generate call and its validated options.
Doc == gcode.doc
Options == validate_config(request.config)

\* The Z last commanded before line k of the document (NoZ: none yet).
LastZ(k) ==
  LET zs == {j \in 1..(k - 1) : Doc[j].z # NoZ} IN
  IF zs = {} THEN NoZ
  ELSE Doc[CHOOSE j \in zs : \A i \in zs : i <= j].z

\* The drawing depth of a category and the safe height, as the document
\* writes them.
DepthOf(cat) ==
  <<Format2(IF cat = "contour" THEN Options.pen_down_z
            ELSE Options.hatch_depth)>>
SafeHeight == <<Format2(calculate_safe_z(Options.pen_up_z))>>

\* C18: in the document of generate the pen is down (the Z last commanded is
\* the drawing depth of the category, below zero) for every drawing move, the
\* closing move of a contour included, and up (the Z last commanded is the safe
\* height, above zero) for every positioning move: the move to the start of a
\* stroke, the home move of the header and the return to origin of the trailer.
C18_PenState ==
  gcode.made =>
    \A k \in 1..Len(Doc) :
      /\ Doc[k].role \in {"draw", "close"} =>
           LastZ(k) = DepthOf(Doc[k].cat) /\ LastZ(k)[1] < 0
      /\ Doc[k].role \in {"to_start", "home", "origin"} =>
           LastZ(k) = SafeHeight /\ LastZ(k)[1] > 0

\* C18's case: a document with drawing moves of both categories, a closing
\* move, and strokes after the first one.
C18_Witness ==
  /\ gcode.made
  /\ \E k \in 1..Len(Doc) : Doc[k].role = "close"
  /\ \E k \in 1..Len(Doc) : Doc[k].role = "draw" /\ Doc[k].cat = "hatching"
  /\ \E k \in 1..Len(Doc) : Doc[k].role = "draw" /\ Doc[k].cat = "contour"
  /\ Cardinality({k \in 1..Len(Doc) : Doc[k].role = "to_start"}) >= 3

\* The plunges and retracts of the document, and the line of the first of
\* them after line k (0: none).
Brackets == {k \in 1..Len(Doc) : Doc[k].role \in {"plunge", "retract"}}
NextBracket(k) ==
  LET after == {j \in Brackets : j > k} IN
  IF after = {} THEN 0 ELSE CHOOSE j \in after : \A i \in after : j <= i

\* C19: in the document of generate every stroke body is preceded by exactly
\* one plunge and followed by exactly one retract.  Every move to a stroke's
\* start is followed at once by a plunge; after a plunge come drawing moves
\* only, up to a retract; every retract ends the plunge before it; and no
\* drawing move lies outside such a bracket.
C19_Bracketing ==
  gcode.made =>
    /\ \A k \in 1..Len(Doc) :
         Doc[k].role = "to_start" =>
           k < Len(Doc) /\ Doc[k + 1].role = "plunge"
    /\ \A k \in Brackets :
         Doc[k].role = "plunge" =>
           /\ Doc[k - 1].role = "to_start"
           /\ NextBracket(k) # 0
           /\ Doc[NextBracket(k)].role = "retract"
           /\ \A j \in (k + 1)..(NextBracket(k) - 1) :
                Doc[j].role \in {"draw", "close"}
    /\ \A k \in Brackets :
         Doc[k].role = "retract" =>
           NextBracket(k) = 0 \/ Doc[NextBracket(k)].role = "plunge"
    /\ \A k \in 1..Len(Doc) :
         Doc[k].role \in {"draw", "close"} =>
           \E p \in Brackets :
             /\ Doc[p].role = "plunge"
             /\ p < k
             /\ k < NextBracket(p)
    /\ Brackets # {} =>
         Doc[CHOOSE j \in Brackets : \A i \in Brackets : j <= i].role = "plunge"

\* C19's case: a document with a hatching stroke and a contour none of whose
\* points is drawn (the plunge is followed at once by the retract), next to a
\* stroke with a body.
C19_Witness ==
  /\ gcode.made
  /\ \E k \in Brackets :
       /\ Doc[k].role = "plunge" /\ Doc[k].cat = "hatching"
       /\ NextBracket(k) = k + 1
  /\ \E k \in Brackets :
       /\ Doc[k].role = "plunge" /\ Doc[k].cat = "contour"
       /\ NextBracket(k) = k + 1
  /\ \E k \in Brackets : Doc[k].role = "plunge" /\ NextBracket(k) > k + 2

\* C20: every emitted contour returns to its start.  Before its retract either
\* the last move is a closing move to the mapped start point, or there is no
\* closing move and the last emitted drawing position (the start itself when
\* nothing was drawn) lies within 0.3 of the mapped start point.
C20_ContourCloses ==
  gcode.made =>
    \A k \in Brackets :
      (Doc[k].role = "plunge" /\ Doc[k].cat = "contour") =>
        LET r == NextBracket(k)
            start == Doc[k].at
            last == Doc[r - 1].at
            closes == {j \in (k + 1)..(r - 1) : Doc[j].role = "close"}
        IN /\ r # 0
           /\ \/ /\ closes = {r - 1}
                 /\ last = start
                 /\ Doc[r - 1].x = Doc[k].x /\ Doc[r - 1].y = Doc[k].y
              \/ /\ closes = {}
                 /\ ~Beyond(last, start, ContourMinDist)

\* C20's case: a document with a contour that gets a closing move and a
\* contour that ends next to its start, away from it, and gets none.
C20_Witness ==
  /\ gcode.made
  /\ \E k \in 1..Len(Doc) : Doc[k].role = "close"
  /\ \E k \in Brackets :
       /\ Doc[k].role = "plunge" /\ Doc[k].cat = "contour"
       /\ NextBracket(k) > k + 1
       /\ Doc[NextBracket(k) - 1].role = "draw"
       /\ Doc[NextBracket(k) - 1].at # Doc[k].at

\* The decimation threshold of a category, in thousandths.
MinDistOf(cat) == IF cat = "contour" THEN ContourMinDist ELSE HatchingMinDist

\* The request of the generate call as the generator sees it, and the mapped
\* position of a source point.
Validated == [request EXCEPT !.config = validate_config(@)]
MappedPoint(p) == Mapped(p, Validated)

Plunges(cat) == {k \in Brackets : Doc[k].role = "plunge" /\ Doc[k].cat = cat}
Occurrences(list, stroke) ==
  Cardinality({i \in 1..Len(list) : list[i] = stroke})

\* A contour of three points or more whose consecutive mapped points, and whose
\* last and first mapped points, are farther apart than the threshold.
FarApart(contour) ==
  /\ Len(contour) >= 3
  /\ \A j \in 1..(Len(contour) - 1) :
       Beyond(MappedPoint(contour[j + 1]), MappedPoint(contour[j]),
              ContourMinDist)
  /\ Beyond(MappedPoint(contour[1]), MappedPoint(contour[Len(contour)]),
            ContourMinDist)

\* The lines around the plunge at line k are the whole sequence of its contour:
\* the move to the mapped first point at the rapid feed rate, the plunge there
\* at half the feed rate, a drawing move to each of the points 2..n in source
\* order, the closing move to the first point and the retract, between two
\* lines that are not movements.
FullSequenceAt(k) ==
  LET contour == Doc[k].stroke
      n == Len(contour)
      Line(i, role, p, f) ==
        /\ Doc[i].role = role
        /\ Doc[i].at = MappedPoint(contour[p])
        /\ Doc[i].x = Format2(Doc[i].at[1]) /\ Doc[i].y = Format2(Doc[i].at[2])
        /\ Doc[i].f = f
  IN /\ k + n + 2 <= Len(Doc)
     /\ Doc[k - 2].role = "text"
     /\ Line(k - 1, "to_start", 1, Options.rapid_feed_rate)
     /\ Doc[k - 1].z = NoZ
     /\ Line(k, "plunge", 1, Options.feed_rate \div 2)
     /\ Doc[k].z = DepthOf("contour")
     /\ \A j \in 2..n :
          Line(k + j - 1, "draw", j, Options.feed_rate) /\ Doc[k + j - 1].z = NoZ
     /\ Line(k + n, "close", 1, Options.feed_rate)
     /\ Doc[k + n].z = NoZ
     /\ Line(k + n + 1, "retract", 1, Options.rapid_feed_rate)
     /\ Doc[k + n + 1].z = SafeHeight
     /\ Doc[k + n + 2].role = "text"

\* C22: when contours are drawn, generate emits for every contour of its input
\* that has three points or more, all consecutive ones and the last and the
\* first farther apart than 0.3 when mapped, exactly this sequence: the move to
\* the mapped first point, the plunge there, a drawing move to each of the
\* points 2..n in source order, the closing move to the first point, the
\* retract.  The contour gets this sequence as many times as it is in the
\* input, and no other.
C22_ClosedContourSequence ==
  (gcode.made /\ Options.draw_contours) =>
    \A i \in 1..Len(request.contours) :
      LET contour == request.contours[i]
          mine == {k \in Plunges("contour") : Doc[k].stroke = contour}
      IN FarApart(contour) =>
           /\ Cardinality(mine) = Occurrences(request.contours, contour)
           /\ \A k \in mine : FullSequenceAt(k)

\* C22 for the contours generate emits: each one that has all its points far
\* apart is emitted as the full sequence.
C22_EmittedContourSequence ==
  gcode.made =>
    \A k \in Plunges("contour") : FarApart(Doc[k].stroke) => FullSequenceAt(k)

\* The movement lines of the document and its other lines, as what they are.
Movements == SelectSeq(Doc, LAMBDA l : l.role # "text")
Roles(lines) == [k \in 1..Len(lines) |-> lines[k].role]
Texts == LET t == SelectSeq(Doc, LAMBDA l : l.role = "text")
         IN [k \in 1..Len(t) |-> t[k].op]

\* The roles of the lines of a stroke.
StrokeRoles == {"to_start", "plunge", "draw", "close", "retract"}

\* A category is left out: its list is empty or its draw flag is false.
LeftOut(cat) ==
  IF cat = "contour"
  THEN request.contours = <<>> \/ ~Options.draw_contours
  ELSE request.hatching_lines = <<>> \/ ~Options.draw_hatching

C24_WithinWorkArea ==
  gcode.made =>
    \A k \in 1..Len(Doc) :
      Doc[k].role # "text" =>
        /\ 0 <= Doc[k].x /\ Doc[k].x * 10 <= Options.work_area_x
        /\ 0 <= Doc[k].y /\ Doc[k].y * 10 <= Options.work_area_y

\* C24 for the positions handed to add_movement, before they are written with
\* two decimals: they lie within the work area, and what is written lies
\* within the work area written with two decimals.
C24_WithinBeforeRounding ==
  gcode.made =>
    \A k \in 1..Len(Doc) :
      Doc[k].role # "text" =>
        /\ 0 <= Doc[k].at[1] /\ Doc[k].at[1] <= Options.work_area_x
        /\ 0 <= Doc[k].at[2] /\ Doc[k].at[2] <= Options.work_area_y
        /\ 0 <= Doc[k].x /\ Doc[k].x <= Format2(Options.work_area_x)
        /\ 0 <= Doc[k].y /\ Doc[k].y <= Format2(Options.work_area_y)

\* Twice the position of a point before the clamp: the row inverted, the point
\* scaled and moved by the offset (work area - image * scale_factor) / 2.
TwiceUnclampedX ==
  2 * mapcall.x * mapcall.scale_factor
    + (mapcall.work_area_x - mapcall.image_width * mapcall.scale_factor)
TwiceUnclampedY ==
  2 * (mapcall.image_height - mapcall.y) * mapcall.scale_factor
    + (mapcall.work_area_y - mapcall.image_height * mapcall.scale_factor)

\* out is the value v (given as twice v) clamped to [0, area].
Saturated(out, twice_v, area) ==
  /\ 0 <= out /\ out <= area
  /\ twice_v < 0 => out = 0
  /\ twice_v > 2 * area => out = area
  /\ (0 <= twice_v /\ twice_v <= 2 * area) => 2 * out = twice_v

\* C25: transform_coordinates returns, on each axis, the point with its row
\* inverted (image_height - y), scaled by scale_factor and moved by the
\* centering offset (work area - image size * scale_factor) / 2, clamped to
\* the work area: each coordinate it returns lies in [0, work area] of its
\* axis, for points inside and outside the image and any image size, scale
\* and (non-negative) work area.
C25_MapperClamp ==
  mapped.made =>
    /\ Saturated(mapped.point[1], TwiceUnclampedX, mapcall.work_area_x)
    /\ Saturated(mapped.point[2], TwiceUnclampedY, mapcall.work_area_y)

\* C25's case: a call whose point lands below zero on one axis and beyond the
\* work area on the other, and has been clamped on both.
C25_Witness ==
  /\ mapped.made
  /\ mapcall.work_area_x > 0
  /\ TwiceUnclampedX < 0 /\ mapped.point[1] = 0
  /\ TwiceUnclampedY > 2 * mapcall.work_area_y
  /\ mapped.point[2] = mapcall.work_area_y

\* A call with scale_factor 1 on a point that lies in the work area on both
\* axes, and such a call with an image of the size of the work area (the
\* offsets are zero).
IdentityScaleInBounds ==
  /\ mapcall.scale_factor = 1000
  /\ 0 <= mapcall.x /\ mapcall.x * 1000 <= mapcall.work_area_x
  /\ 0 <= mapcall.y /\ mapcall.y * 1000 <= mapcall.work_area_y
ZeroOffsets ==
  /\ mapcall.image_width * 1000 = mapcall.work_area_x
  /\ mapcall.image_height * 1000 = mapcall.work_area_y

\* C26, as the specification states it: with scale_factor 1 and a point inside
\* the work area, transform_coordinates applied to its own result returns
\* that result again, f(f(p)) = f(p).
C26_Idempotent ==
  (mapped.made /\ mapped.again /\ IdentityScaleInBounds) =>
    mapped.twice = mapped.point

\* C26, amended: with scale_factor 1 and zero offsets the mapping of a point
\* inside the work area keeps X and inverts Y, f(x, y) = (x, height - y); a
\* second application returns the original point, f(f(p)) = p, so it gives
\* f(p) again exactly for the points of the middle row, y = height / 2.
C26_FlipInvolution ==
  (mapped.made /\ IdentityScaleInBounds /\ ZeroOffsets) =>
    /\ mapped.point = <<mapcall.x * 1000,
                        (mapcall.image_height - mapcall.y) * 1000>>
    /\ mapped.again =>
         /\ mapped.twice = <<mapcall.x * 1000, mapcall.y * 1000>>
         /\ mapped.twice[1] = mapped.point[1]
         /\ (mapped.twice = mapped.point) <=> (2 * mapcall.y = mapcall.image_height)

\* C26's case: the mapping has been applied twice, with scale_factor 1 and
\* zero offsets, to a point inside the work area and off the middle row.
C26_Witness ==
  /\ mapped.made /\ mapped.again
  /\ IdentityScaleInBounds /\ ZeroOffsets
  /\ mapcall.work_area_y > 0
  /\ 2 * mapcall.y # mapcall.image_height

\* A stored value lies inside the admissible range of its field.
InRange(f, value) ==
  /\ value.kind = "number"
  /\ numeric_params[f][1] <= value.v
  /\ value.v <= numeric_params[f][2]

\* C27: the construction of a GCodeGenerator never rejects its config and
\* always clamps: whatever value a numeric field is given (inside its range,
\* below it, above it, or no number at all), the construction returns, and the
\* stored value of every numeric field lies inside the range of that field.
C27_NeverRejectsAlwaysClamps ==
  stored.made =>
    /\ ~stored.raised
    /\ \A f \in NumericFields : InRange(f, stored.config[f])

\* C27 for the fields that are given a number (an infinity included): the
\* stored value is that number clamped to the range of the field, and the
\* options stored for a config of numbers are those validate_config gives.
C27_NumbersClamped ==
  (stored.made /\ ~stored.raised) =>
    /\ \A f \in NumericFields :
         rawconfig.config[f].kind \in {"number", "inf", "-inf"} =>
           /\ InRange(f, stored.config[f])
           /\ InRange(f, rawconfig.config[f]) =>
                stored.config[f] = rawconfig.config[f]
    /\ (\A f \in NumericFields : rawconfig.config[f].kind = "number") =>
         LET plain == [f \in NumericFields |-> rawconfig.config[f].v]
         IN \A f \in NumericFields :
              stored.config[f].v = validate_config(plain)[f]

\* A send request that its transport accepted (it passed the connection check
\* of send_gcode), and the terminal result of a request: for the wired
\* transport the final status message of the drain thread, for the wireless
\* one what send_gcode returned (with the final status message when it
\* completed).
Accepted(c) == th[c].kind # "none" /\ th[c].result # "no_connection"
TerminalResult(c) ==
  IF th[c].kind = "serial" THEN th[c].report.made
  ELSE /\ th[c].result \in {"ok", "cancelled"}
       /\ th[c].report.made <=> th[c].result = "ok"

\* C28, its final state: a send that its transport accepted and whose drain
\* loop has ended has reported its terminal result (completed with its counts,
\* cancelled, or failed) through the status callback or the return value,
\* wherever in the job the cancellation or the failure came.
C28_OneTerminalResult ==
  \A c \in Calls : (Accepted(c) /\ th[c].pc = "done") => TerminalResult(c)

\* C28, the way there: an accepted send whose drain loop has not ended can
\* take a step, or waits for the lock that another running drain loop holds.
C28_NeverStuck ==
  \A c \in Calls :
    InFlight(c) =>
      \/ ENABLED (SerialThread(c) \/ BtCall(c))
      \/ /\ send_lock \in Calls \ {c}
         /\ InFlight(send_lock)

\* C28 without the wired requests that were cancelled, or lost their
\* connection, before their payload: every other accepted send that has ended
\* has reported its terminal result.
C28_ReportedUnlessStoppedEarly ==
  \A c \in Calls :
    (Accepted(c) /\ th[c].pc = "done" /\ ~TerminalResult(c)) =>
      /\ th[c].kind = "serial"
      /\ th[c].stopped
      /\ Attempts(c, "payload") = <<>>
      /\ Attempts(c, "end") = <<>>

\* The lines of a document that belong to the strokes of a category, and the
\* members of a list.
LinesOf(doc, cat) == SelectSeq(doc, LAMBDA l : l.cat = cat)
Members(list) == {list[i] : i \in 1..Len(list)}

\* The request of the generate call with the list of one category taken away.
Without(cat) ==
  IF cat = "contour" THEN [request EXCEPT !.contours = <<>>]
  ELSE [request EXCEPT !.hatching_lines = <<>>]

\* C29: every stroke of the document follows the policy of its own category:
\* a contour stroke is plunged to pen_down_z and a hatching stroke to
\* hatch_depth (as the document writes them, with two decimals), every plunge
\* is made at feed_rate // 2 and every drawing move at feed_rate; a stroke of a
\* category is a member of the list of that category, the strokes of a
\* category and their order are those the list gives on its own, whatever the
\* other list holds (the ordering optimization sees one list at a time), and
\* every line of a contour stroke precedes every line of a hatching stroke.
C29_CategoryPolicy ==
  gcode.made =>
    /\ \A k \in 1..Len(Doc) :
         /\ Doc[k].role = "plunge" =>
              /\ Doc[k].z = DepthOf(Doc[k].cat)
              /\ Doc[k].f = Options.feed_rate \div 2
         /\ Doc[k].role \in {"draw", "close"} => Doc[k].f = Options.feed_rate
         /\ Doc[k].cat = "contour" => Doc[k].stroke \in Members(request.contours)
         /\ Doc[k].cat = "hatching" =>
              Doc[k].stroke \in Members(request.hatching_lines)
    /\ LinesOf(Doc, "contour") = LinesOf(generate(Without("hatching")), "contour")
    /\ LinesOf(Doc, "hatching") = LinesOf(generate(Without("contour")), "hatching")
    /\ \A i, j \in 1..Len(Doc) :
         (Doc[i].cat = "contour" /\ Doc[j].cat = "hatching") => i < j

\* C29's case: a document made with the ordering optimization on, with two
\* contour strokes and two hatching strokes, the two depths different and the
\* feed rate odd (half of it is rounded down).
C29_Witness ==
  /\ gcode.made
  /\ Options.feed_rate % 2 = 1
  /\ Options.optimize_order
  /\ DepthOf("contour") # DepthOf("hatching")
  /\ Cardinality(Plunges("contour")) = 2
  /\ Cardinality(Plunges("hatching")) = 2
  /\ \E k \in 1..Len(Doc) : Doc[k].role = "draw" /\ Doc[k].cat = "contour"
  /\ \E k \in 1..Len(Doc) : Doc[k].role = "draw" /\ Doc[k].cat = "hatching"

\* The commands of the document (its lines that are neither empty nor a
\* comment), and what each of them is: the text of a fixed command, the role
\* of a movement.
Comments == {"", "; =", "; contours", "; hatching", "; end", "; contour", "; line"}
Commands == SelectSeq(Doc, LAMBDA l : l.role # "text" \/ l.op \notin Comments)
KindOf(l) == IF l.role = "text" THEN l.op ELSE l.role
Kinds == [k \in 1..Len(Commands) |-> KindOf(Commands[k])]
HeaderKinds == <<"G21", "G90", "G94", "lift", "home">>
TrailerKinds == <<"origin", "final_lift", "M5", "M30">>

UnvisitedAt(k) ==
  {i \in 1..Len(items.strokes) : \A m \in 1..(k - 1) : optimized.order[m] # i}
AllUndefinedAt(k) ==
  \A i \in UnvisitedAt(k) :
    hypot2(items.strokes[optimized.order[k - 1]][2], items.strokes[i][1]).kind = "nan"

\* C31: when, at a step of _greedy_sort, the distance from the end of the
\* current stroke to every unvisited stroke is undefined (NaN), the output
\* lists, from that step on, all the unvisited strokes by increasing index.
C31_RemainderInOriginalOrder ==
  optimized.made =>
    \A k \in 2..Len(optimized.order) :
      AllUndefinedAt(k) =>
        \A m, n \in k..Len(optimized.order) :
          m < n => optimized.order[m] < optimized.order[n]

\* C31 as the code has it: at such a step the stroke appended is the unvisited
\* one of the lowest index (one stroke, after which the search goes on from
\* the end of that stroke); the rest follows by increasing index when the
\* distances are undefined at every later step too.
C31_NextInOriginalOrder ==
  optimized.made =>
    \A k \in 2..Len(optimized.order) :
      AllUndefinedAt(k) =>
        /\ \A i \in UnvisitedAt(k) : optimized.order[k] <= i
        /\ (\A j \in k..Len(optimized.order) : AllUndefinedAt(j)) =>
             \A m, n \in k..Len(optimized.order) :
               m < n => optimized.order[m] < optimized.order[n]

\* C32: generate leaves no state behind: a second generate call on the same
\* GCodeGenerator with the same strokes and config returns the text that the
\* first call returned; and generate_sketch_gcode leaves the caller's config
\* as it was.
C32_NoStateLeftBehind ==
  /\ Len(returned) >= 2 => returned[2] = returned[1]
  /\ configs.caller = request.config

\* C32 for a generator that is used once: the first generate call of a
\* GCodeGenerator returns the document of its arguments, the text that
\* generate_sketch_gcode returns is that of a new generator with the
\* optimize_order argument in its config, and the caller's config stays as it
\* was (its own optimize_order entry included).
C32_FirstCallAndCallerConfig ==
  /\ (builder.made /\ Len(returned) >= 1) => returned[1] = generate(request)
  /\ (~builder.made /\ Len(returned) >= 1) =>
       /\ returned[1] =
            generate([request EXCEPT
                        !.config.optimize_order = request.optimize_order])
       /\ configs.callee.optimize_order = request.optimize_order
  /\ configs.caller = request.config

\* C33: every X and Y that the text emitter writes for a text stroke lies in
\* the work area, for every text, start position inside the work area and
\* alignment.
C33_TextWithinWorkArea ==
  gcode.made =>
    \A k \in 1..Len(gcode.doc) :
      gcode.doc[k].cat = "text" =>
        /\ 0 <= gcode.doc[k].x /\ 10 * gcode.doc[k].x <= request.work_area_x
        /\ 0 <= gcode.doc[k].y /\ 10 * gcode.doc[k].y <= request.work_area_y

\* C34: a job that emergency_stop has cancelled never resumes: after the flag
\* was set for it, the job hands no payload line to the link beyond the one
\* that may already have passed the check before the write, and, unless it was
\* already at its trailing commands, none of the trailing commands, whatever
\* calls (send, connect, disconnect) follow.
C34_CancelledNeverResumes ==
  \A c \in Calls :
    th[c].cancelled =>
      /\ Len(PayloadAttempts(c)) <= th[c].triedAtCancel + 1
      /\ th[c].pcAtCancel \notin EndPcs => Attempts(c, "end") = <<>>

\* A transport holds a live connection, and the transport the manager has
\* selected does.
Live(tr) ==
  IF tr = "serial" THEN s_is_connected /\ serial_connection = "open"
  ELSE IF tr = "bluetooth" THEN b_is_connected /\ client = "connected"
  ELSE FALSE

\* C35: between the calls the manager's is_connected agrees with the
\* transport it has selected (it is true exactly when that transport holds a
\* live connection), and after a disconnect that returned ok the manager is
\* not connected.
C35_ManagerAgreesWithTransport ==
  main.op = "idle" =>
    /\ mgr_is_connected <=> Live(connection_type)
    /\ (main.disc \in ConnectionTypes /\ main.left.ok) => ~mgr_is_connected

\* C35, the half that holds: a transport holds a live connection only while
\* the manager is connected and has selected it.
C35_LiveOnlyWhenManagerConnected ==
  main.op = "idle" =>
    \A tr \in ConnectionTypes :
      Live(tr) => (mgr_is_connected /\ connection_type = tr)

\* A step in which a connect call returns failure: the port did not open, the
\* client did not connect, or the kind is not supported.
ConnectFails ==
  /\ main.op \in {"open", "opening"}
  /\ main'.op = "idle"
  /\ \/ main.arg = "serial" /\ serial_connection' # "open"
     \/ main.arg = "bluetooth" /\ client' # "connected"
     \/ main.arg \notin ConnectionTypes

\* C36: when a connect call returns failure, no transport holds a live
\* connection and the manager is not connected.
C36_FailedConnectLeavesDisconnected ==
  [][ConnectFails =>
       (~mgr_is_connected' /\ ~s_is_connected' /\ ~b_is_connected'
        /\ serial_connection' # "open" /\ client' # "connected")]_vars

\* C36 for the kinds the manager supports.
C36_FailedSupportedConnect ==
  [][(ConnectFails /\ main.arg \in ConnectionTypes) =>
       (~mgr_is_connected' /\ ~s_is_connected' /\ ~b_is_connected'
        /\ serial_connection' # "open" /\ client' # "connected")]_vars

\* C36 for every kind, the manager's own flag aside: no transport holds a
\* live connection after a connect call that returned failure.
C36_FailedConnectNoLiveTransport ==
  [][ConnectFails =>
       (~s_is_connected' /\ ~b_is_connected'
        /\ serial_connection' # "open" /\ client' # "connected")]_vars

\* The payload writes of request c that have returned (one is under way while
\* the request is at its write), and those of them that failed: handed to
\* _send_line and not written to the link.
ReturnedWrites(c) ==
  Len(PayloadAttempts(c)) - (IF th[c].pc = "p_write" THEN 1 ELSE 0)
FailedWrites(c) == ReturnedWrites(c) - Len(PayloadOnWire(c))

\* C37: the counters of a send job are consistent: sent_lines counts the
\* payload lines whose write succeeded, errors those whose write failed,
\* their sum is the number of write attempts made, and sent_lines is at most
\* the number of payload lines of the job.
C37_CountersConsistent ==
  \A c \in Calls :
    /\ th[c].sent_lines = Len(PayloadOnWire(c))
    /\ th[c].errors = FailedWrites(c)
    /\ th[c].sent_lines + th[c].errors = ReturnedWrites(c)
    /\ th[c].sent_lines <= Len(Payload(th[c].job))

\* C37 as the code counts: sent_lines counts the write attempts, failed ones
\* included, errors the failed ones, and no more attempts are made than the
\* list the loop iterates has payload lines.
C37_SentCountsAttempts ==
  \A c \in Calls :
    /\ th[c].sent_lines = ReturnedWrites(c)
    /\ th[c].errors = FailedWrites(c)
    /\ th[c].sent_lines <= Len(Payload(th[c].drained))

\* The stroke bodies of a document: each runs from a positioning move to the
\* next retract; a body is read as it is written (command, X, Y, Z, F).
Written(l) == [op |-> l.op, x |-> l.x, y |-> l.y, z |-> l.z, f |-> l.f]
BodyStarts(doc) == {k \in 1..Len(doc) : doc[k].role = "to_start"}
BodyEnd(doc, k) ==
  CHOOSE j \in k..Len(doc) :
    /\ doc[j].role = "retract"
    /\ \A i \in k..(j - 1) : doc[i].role # "retract"
BodyAt(doc, k) ==
  [i \in 1..(BodyEnd(doc, k) - k + 1) |-> Written(doc[k + i - 1])]
BodyCount(doc, body) ==
  Cardinality({k \in BodyStarts(doc) : BodyAt(doc, k) = body})
Bodies(doc) == {BodyAt(doc, k) : k \in BodyStarts(doc)}

\* The documents of the request of the generate call with the ordering
\* optimization on and off.
Ordered(flag) == generate([request EXCEPT !.config.optimize_order = flag])

\* The strokes a document has to draw: the contours of three points or more
\* and the hatching lines of two points or more, of the sections that are on.
StrokesToDraw ==
  (IF request.config.draw_contours
   THEN {i \in 1..Len(request.contours) : Len(request.contours[i]) >= 3}
   ELSE {})
  \cup
  (IF request.config.draw_hatching
   THEN {-i : i \in {j \in 1..Len(request.hatching_lines) :
                       Len(request.hatching_lines[j]) >= 2}}
   ELSE {})

\* C38: the ordering optimization changes only the order: the document made
\* with optimize_order on holds the same stroke bodies, each as many times, as
\* the one made with it off, which is one body for every contour of three
\* points or more and every hatching line of two points or more.
C38_SameBodies ==
  gcode.made =>
    /\ \A body \in Bodies(Ordered(TRUE)) \cup Bodies(Ordered(FALSE)) :
         BodyCount(Ordered(TRUE), body) = BodyCount(Ordered(FALSE), body)
    /\ Cardinality(BodyStarts(Ordered(TRUE))) = Cardinality(StrokesToDraw)
    /\ Cardinality(BodyStarts(Ordered(FALSE))) = Cardinality(StrokesToDraw)

\* C38 on the requests whose strokes all have two points or more.
C38_SameBodiesOfLongStrokes ==
  (/\ \A i \in 1..Len(request.contours) : Len(request.contours[i]) >= 2
   /\ \A i \in 1..Len(request.hatching_lines) :
        Len(request.hatching_lines[i]) >= 2)
    => C38_SameBodies

\* C38 without the optimization: one body for every stroke to draw.
C38_UnorderedDrawsEveryStroke ==
  gcode.made =>
    Cardinality(BodyStarts(Ordered(FALSE))) = Cardinality(StrokesToDraw)

\* The plunges and the retracts of the document, and X and Y of a line as the
\* document writes them.
PlungeLines == {k \in 1..Len(Doc) : Doc[k].role = "plunge"}
RetractLines == {k \in 1..Len(Doc) : Doc[k].role = "retract"}
WrittenXY(k) == <<Doc[k].x, Doc[k].y>>

\* C39: plunge and retract are vertical moves: a plunge is written with the
\* X and Y of the positioning move before it, and a retract with the X and Y
\* of the line before it, the last position emitted in the stroke.
C39_VerticalPlungeAndRetract ==
  gcode.made =>
    /\ \A k \in PlungeLines :
         /\ Doc[k - 1].role = "to_start"
         /\ WrittenXY(k) = WrittenXY(k - 1)
    /\ \A k \in RetractLines :
         /\ Doc[k - 1].role \in {"plunge", "draw", "close"}
         /\ WrittenXY(k) = WrittenXY(k - 1)

\* C39, the plunges alone.
C39_VerticalPlunge ==
  gcode.made =>
    \A k \in PlungeLines :
      /\ Doc[k - 1].role = "to_start"
      /\ WrittenXY(k) = WrittenXY(k - 1)

\* C39, what the retract keeps: it is asked for at a position no farther than
\* the threshold of the category from the last position emitted in the
\* stroke, and at that position when the last source point was drawn or the
\* closing move was made.
C39_RetractWithinThreshold ==
  gcode.made =>
    \A k \in RetractLines :
      /\ Doc[k - 1].role \in {"plunge", "draw", "close"}
      /\ ~Beyond(Doc[k].at, Doc[k - 1].at, MinDistOf(Doc[k].cat))
      /\ (\/ Doc[k - 1].role = "close"
          \/ /\ Doc[k].cat = "hatching"
             /\ Doc[k - 1].role = "draw"
             /\ Doc[k - 1].pt = Len(Doc[k - 1].stroke))
           => WrittenXY(k) = WrittenXY(k - 1)

\* The heights of the pen among the options, and the order the stored options
\* keep them in.
HeightFields == {"pen_down_z", "hatch_depth", "pen_up_z"}
HeightsOrdered(config) ==
  /\ \A f \in HeightFields : config[f].kind = "number"
  /\ config.pen_down_z.v < 0
  /\ config.hatch_depth.v < 0
  /\ 0 < config.pen_up_z.v
  /\ config.pen_up_z.v <= calculate_safe_z(config.pen_up_z.v)

\* C40: the options a constructed generator has stored satisfy
\* pen_down_z < 0 < pen_up_z <= safe_z and hatch_depth < 0 < pen_up_z.
C40_HeightsOrdered ==
  (stored.made /\ ~stored.raised) => HeightsOrdered(stored.config)

\* C40 for the configs whose pen heights are numbers or infinities.
C40_HeightsOrderedOfNumbers ==
  (/\ stored.made
   /\ ~stored.raised
   /\ \A f \in HeightFields :
        rawconfig.config[f].kind \in {"number", "inf", "-inf"})
    => HeightsOrdered(stored.config)

\* C40 in the documents: with numeric options every plunge is written below
\* zero and every retract above it.
C40_DepthBelowTravel ==
  gcode.made =>
    /\ \A k \in PlungeLines : Doc[k].z[1] < 0
    /\ \A k \in RetractLines : Doc[k].z[1] > 0

====
